---------------------------- MODULE Spec2Model ----------------------------
(***************************************************************************)
(* CSV comparison engine of Compare_murex_interface.                       *)
(*                                                                         *)
(* Two variants of the engine live in the repository and both are          *)
(* modelled: src/core/comparator.py (imported by main.py and by the batch  *)
(* orchestrator) and src/core/comparator_33.py (adds Unicode               *)
(* normalisation at load time and the key-uniqueness check).  The          *)
(* variable `variant` says which class the instance `self` belongs to.     *)
(*                                                                         *)
(* A cell is a sequence of characters; a character is a one-symbol string. *)
(* pandas' missing value is the one-element sequence NaN.  A table (a      *)
(* DataFrame) is a record [header, rows] where rows is a sequence of       *)
(* functions from the header's column names to cells.                      *)
(***************************************************************************)
EXTENDS Integers, Sequences, FiniteSets, TLC

VARIABLES variant, fs, self, pc, headers_ok, is_fatal, records_ok, result,
          calls, first, call, frame, ret, orchestrator

\* The caller of run_comparison: the number of calls made on `self` so far
\* and the Result the first of them returned.
caller == <<calls, first>>

\* A call of one of the helper functions on its own: its name and
\* arguments, its local variables, and the values it has returned or the
\* exception it has raised so far.
helper == <<call, frame, ret>>

vars == <<variant, fs, self, pc, headers_ok, is_fatal, records_ok, result,
          caller, helper, orchestrator>>

-----------------------------------------------------------------------------
(* Bounds of the model.                                                    *)

\* Largest number of data rows of a source file.
MaxRows == 2

\* Calls of run_comparison on one instance.
MaxCalls == 2

\* Characters of a cell given to a normalisation function on its own.
MaxLen == 3

-----------------------------------------------------------------------------
(* Characters, cells and the helpers of Python's str the code relies on.   *)

NaN == <<"<NaN>">>

isna(v) == v = NaN

\* The whitespace of ASCII only.
AsciiWhitespace == {" "}

\* The characters c with c.isspace(): the blank and U+00A0.
Whitespace == {" ", "NBSP"}

\* Code points, for the order Python compares strings by.
CodePoint(c) ==
    CASE c = " "    -> 32
      [] c = "'"    -> 39
      [] c = "("    -> 40
      [] c = ")"    -> 41
      [] c = ","    -> 44
      [] c = "."    -> 46
      [] c = "0"    -> 48
      [] c = "1"    -> 49
      [] c = "2"    -> 50
      [] c = "8"    -> 56
      [] c = "a"    -> 97
      [] c = "c"    -> 99
      [] c = "e"    -> 101
      [] c = "n"    -> 110
      [] c = "s"    -> 115
      [] c = "t"    -> 116
      [] c = "v"    -> 118
      [] c = "x"    -> 120
      [] c = "y"    -> 121
      [] c = "NBSP" -> 160
      [] c = "EACUTE"    -> 233
      [] c = "ACUTE" -> 769
      [] c = "FFFD" -> 65533

\* str.__lt__ : lexicographic by code point.
RECURSIVE StrLess(_, _)
StrLess(s, t) ==
    IF t = <<>> THEN FALSE
    ELSE IF s = <<>> THEN TRUE
    ELSE IF s[1] # t[1] THEN CodePoint(s[1]) < CodePoint(t[1])
    ELSE StrLess(Tail(s), Tail(t))

\* str(val) of a cell: a string is itself, the missing value prints "nan".
str(v) == IF isna(v) THEN <<"n", "a", "n">> ELSE v

RECURSIVE lstrip(_)
lstrip(s) == IF s # <<>> /\ s[1] \in Whitespace THEN lstrip(Tail(s)) ELSE s

RECURSIVE rstrip(_)
rstrip(s) ==
    IF s # <<>> /\ s[Len(s)] \in Whitespace
    THEN rstrip(SubSeq(s, 1, Len(s) - 1))
    ELSE s

\* str.strip()
strip(s) == rstrip(lstrip(s))

\* unicodedata.normalize('NFC', s) on the model's alphabet: the pair
\* e + COMBINING ACUTE ACCENT composes to the single character U+00E9 (EACUTE).
RECURSIVE NFC(_)
NFC(s) ==
    IF Len(s) < 2 THEN s
    ELSE IF s[1] = "e" /\ s[2] = "ACUTE" THEN <<"EACUTE">> \o NFC(Tail(Tail(s)))
    ELSE <<s[1]>> \o NFC(Tail(s))

\* s.replace(U+00A0, ' ')
replace_nbsp(s) == [i \in DOMAIN s |-> IF s[i] = "NBSP" THEN " " ELSE s[i]]

\* re.sub(r'\s+', ' ', s)
RECURSIVE collapse_spaces(_)
collapse_spaces(s) ==
    IF s = <<>> THEN <<>>
    ELSE IF s[1] \in Whitespace
         THEN <<" ">> \o collapse_spaces(lstrip(s))
         ELSE <<s[1]>> \o collapse_spaces(Tail(s))

\* comparator.py, CSVComparator._normalize_val
normalize_val(val) == IF isna(val) THEN <<>> ELSE strip(str(val))

\* comparator_33.py, CSVComparator._normalize_val
normalize_val_33(val) ==
    IF isna(val) THEN <<>> ELSE replace_nbsp(NFC(strip(str(val))))

\* comparator_33.py, CSVComparator._normalize_unicode_cell
normalize_unicode_cell(v) ==
    IF isna(v) THEN <<>>
    ELSE strip(collapse_spaces(replace_nbsp(NFC(str(v)))))

\* A normalisation that also reads numbers: a trailing ".0" is dropped, so
\* that "80.0" and "80" normalise to the same string.
NormalizeVal_numeric(v, val) ==
    LET t == IF v = "comparator_33" THEN normalize_val_33(val)
             ELSE normalize_val(val)
    IN  IF Len(t) > 2 /\ SubSeq(t, Len(t) - 1, Len(t)) = <<".", "0">>
        THEN SubSeq(t, 1, Len(t) - 2)
        ELSE t

\* The _normalize_val of the instance's class.
NormalizeVal(v, val) ==
    IF v = "comparator_33" THEN normalize_val_33(val) ELSE normalize_val(val)

-----------------------------------------------------------------------------
(* Source files and DataFrames.                                            *)

Range(f) == {f[i] : i \in DOMAIN f}

\* A file on disk: absent, zero bytes long, or a delimited text whose bytes
\* are UTF-8 ("utf8") or Latin-1 with at least one byte above 0x7F
\* ("latin1", which is not valid UTF-8).
csv_kinds == {"utf8", "latin1"}

\* self.df1 = None
None == [loaded |-> FALSE, header |-> <<>>, rows |-> <<>>]

\* pd.read_csv(path, dtype=str): every cell a string, the empty field the
\* missing value.
parse_csv(file) ==
    [loaded |-> TRUE,
     header |-> file.header,
     rows   |-> [i \in DOMAIN file.rows |->
                    [c \in DOMAIN file.rows[i] |->
                        IF file.rows[i][c] = <<>> THEN NaN
                        ELSE file.rows[i][c]]]]

\* comparator.py line 34: pd.read_csv decodes as UTF-8 and raises on an
\* empty file or on bytes that are not UTF-8.
read_csv(file) ==
    IF file.kind = "utf8"
    THEN [raised |-> FALSE, df |-> parse_csv(file)]
    ELSE [raised |-> TRUE, df |-> None]

\* comparator_33.py, _read_csv_robust: utf-8, utf-8-sig, cp1252, latin1 and
\* iso-8859-1 are tried in turn; Latin-1 bytes decode at the third attempt,
\* an empty file fails under every encoding.
read_csv_robust(file) ==
    IF file.kind \in csv_kinds
    THEN [raised |-> FALSE, df |-> parse_csv(file)]
    ELSE [raised |-> TRUE, df |-> None]

\* A loader that leaves the ignored columns in the frame.
drop_nothing(df, cols) == df

\* df.drop(columns=cols, errors='ignore')
drop(df, cols) ==
    [loaded |-> TRUE,
     header |-> SelectSeq(df.header, LAMBDA c : c \notin cols),
     rows   |-> [i \in DOMAIN df.rows |->
                    [c \in DOMAIN df.rows[i] \ cols |-> df.rows[i][c]]]]

\* comparator_33.py, _normalize_dataframe: df.applymap(_normalize_unicode_cell)
normalize_dataframe(df) ==
    [loaded |-> TRUE,
     header |-> df.header,
     rows   |-> [i \in DOMAIN df.rows |->
                    [c \in DOMAIN df.rows[i] |->
                        normalize_unicode_cell(df.rows[i][c])]]]

\* Number of cells of df whose text holds U+FFFD.
replacement_count(df) ==
    Cardinality({<<i, c>> \in (DOMAIN df.rows) \X Range(df.header) :
                    "FFFD" \in Range(str(df.rows[i][c]))})

\* comparator_33.py, _report_replacement_chars
report_replacement_chars(s, df, which) ==
    IF replacement_count(df) > 0
    THEN [s EXCEPT
            !.differences = Append(@,
                [msg |-> "Advertencia: caracteres de reemplazo",
                 file |-> which, count |-> replacement_count(df)]),
            !.structured_differences = Append(@,
                [type |-> "replacement_char_warning",
                 file |-> which, count |-> replacement_count(df)])]
    ELSE s

load_error(s) ==
    [s EXCEPT !.errors = Append(@, [msg |-> "Error loading files"])]

\* comparator.py, CSVComparator.load_files
load_files_1(files, s) ==
    IF files[s.file1_path].kind = "missing"
    THEN [self |-> [s EXCEPT !.errors = Append(@,
                        [msg |-> "File not found", path |-> s.file1_path])],
          ret |-> FALSE]
    ELSE IF files[s.file2_path].kind = "missing"
    THEN [self |-> [s EXCEPT !.errors = Append(@,
                        [msg |-> "File not found", path |-> s.file2_path])],
          ret |-> FALSE]
    ELSE LET r1 == read_csv(files[s.file1_path])
             r2 == read_csv(files[s.file2_path])
         IN  IF r1.raised THEN [self |-> load_error(s), ret |-> FALSE]
             ELSE IF r2.raised
             THEN [self |-> load_error([s EXCEPT !.df1 = r1.df]),
                   ret |-> FALSE]
             ELSE [self |-> [s EXCEPT
                                !.df1 = drop(r1.df, s.ignore_columns),
                                !.df2 = drop(r2.df, s.ignore_columns)],
                   ret |-> TRUE]

\* comparator_33.py, CSVComparator.load_files
load_files_33(files, s) ==
    IF files[s.file1_path].kind = "missing"
    THEN [self |-> [s EXCEPT !.errors = Append(@,
                        [msg |-> "File not found", path |-> s.file1_path])],
          ret |-> FALSE]
    ELSE IF files[s.file2_path].kind = "missing"
    THEN [self |-> [s EXCEPT !.errors = Append(@,
                        [msg |-> "File not found", path |-> s.file2_path])],
          ret |-> FALSE]
    ELSE LET r1 == read_csv_robust(files[s.file1_path])
             r2 == read_csv_robust(files[s.file2_path])
         IN  IF r1.raised THEN [self |-> load_error(s), ret |-> FALSE]
             ELSE IF r2.raised
             THEN [self |-> load_error([s EXCEPT !.df1 = r1.df]),
                   ret |-> FALSE]
             ELSE LET d1 == normalize_dataframe(drop(r1.df, s.ignore_columns))
                      d2 == normalize_dataframe(drop(r2.df, s.ignore_columns))
                      s1 == [s EXCEPT !.df1 = d1, !.df2 = d2]
                      s2 == report_replacement_chars(s1, d1, "File 1")
                      s3 == report_replacement_chars(s2, d2, "File 2")
                  IN  [self |-> s3, ret |-> TRUE]

load_files(v, files, s) ==
    IF v = "comparator_33" THEN load_files_33(files, s)
    ELSE load_files_1(files, s)

-----------------------------------------------------------------------------
(* Header validation.                                                      *)

\* headers1 / headers2 : list(df.columns)
columns(df) == Range(df.header)

\* A key check that stops at the first key column it misses.
RECURSIVE key_column_errors_first(_, _, _)
key_column_errors_first(keys, headers1, headers2) ==
    IF keys = <<>> THEN <<>>
    ELSE IF Head(keys) \notin Range(headers1)
    THEN <<[msg |-> "Key column not found", k |-> Head(keys),
            file |-> "File 1"]>>
    ELSE IF Head(keys) \notin Range(headers2)
    THEN <<[msg |-> "Key column not found", k |-> Head(keys),
            file |-> "File 2"]>>
    ELSE key_column_errors_first(Tail(keys), headers1, headers2)

\* comparator.py 56-64: one error per key column and per file lacking it, in
\* the order of key_columns, File 1 before File 2.
RECURSIVE key_column_errors(_, _, _)
key_column_errors(keys, headers1, headers2) ==
    IF keys = <<>> THEN <<>>
    ELSE LET k  == Head(keys)
             e1 == IF k \notin Range(headers1)
                   THEN <<[msg |-> "Key column not found", k |-> k,
                           file |-> "File 1"]>>
                   ELSE <<>>
             e2 == IF k \notin Range(headers2)
                   THEN <<[msg |-> "Key column not found", k |-> k,
                           file |-> "File 2"]>>
                   ELSE <<>>
         IN  e1 \o e2 \o key_column_errors(Tail(keys), headers1, headers2)

\* CSVComparator.validate_headers (the same text in both variants)
validate_headers(s) ==
    IF ~s.df1.loaded \/ ~s.df2.loaded THEN [self |-> s, ret |-> FALSE]
    ELSE
    LET headers1 == s.df1.header
        headers2 == s.df2.header
        kerrs    == key_column_errors(s.key_columns, headers1, headers2)
    IN  IF s.key_columns # <<>> /\ kerrs # <<>>
        THEN [self |-> [s EXCEPT !.errors = @ \o kerrs], ret |-> FALSE]
        ELSE
        LET s1 == IF Len(headers1) # Len(headers2)
                  THEN [s EXCEPT
                          !.differences = Append(@,
                              [msg |-> "Header count mismatch",
                               file1_count |-> Len(headers1),
                               file2_count |-> Len(headers2)]),
                          !.structured_differences = Append(@,
                              [type |-> "header_count_mismatch",
                               file1_count |-> Len(headers1),
                               file2_count |-> Len(headers2)])]
                  ELSE s
            s2 == IF headers1 # headers2
                  THEN [s1 EXCEPT
                          !.differences = Append(@,
                              [msg |-> "Header name mismatch",
                               file1_headers |-> headers1,
                               file2_headers |-> headers2]),
                          !.structured_differences = Append(@,
                              [type |-> "header_name_mismatch",
                               file1_headers |-> headers1,
                               file2_headers |-> headers2])]
                  ELSE s1
        IN  [self |-> s2,
             ret  |-> Len(headers1) = Len(headers2) /\ headers1 = headers2]

-----------------------------------------------------------------------------
(* Keys.                                                                   *)

\* The key of a row: the tuple of its cells in the key columns.
key_of(row, keys) == [i \in 1..Len(keys) |-> row[keys[i]]]

keys_of(df, keys) == {key_of(df.rows[i], keys) : i \in DOMAIN df.rows}

\* repr() of a cell inside a tuple.
repr(v) == IF isna(v) THEN str(v) ELSE <<"'">> \o v \o <<"'">>

RECURSIVE join_repr(_)
join_repr(key) ==
    IF Len(key) = 1 THEN repr(key[1])
    ELSE repr(key[1]) \o <<",", " ">> \o join_repr(Tail(key))

\* str(x) of an id: the cell for a single key column, the tuple's text for
\* several.
key_str(key) ==
    IF Len(key) = 1 THEN str(key[1])
    ELSE <<"(">> \o join_repr(key) \o <<")">>

\* Python's < on two ids (strings, or tuples of strings).
RECURSIVE key_less(_, _)
key_less(a, b) ==
    IF a = <<>> \/ b = <<>> THEN a = <<>> /\ b # <<>>
    ELSE IF a[1] # b[1] THEN StrLess(a[1], b[1])
    ELSE key_less(Tail(a), Tail(b))

\* list.sort() compares a missing value (a float) with a string and raises
\* TypeError as soon as the list holds a key with a missing component
\* beside another key; the except clause then leaves the list as it is.
sort_raises(ids) ==
    /\ Len(ids) > 1
    /\ \E i \in DOMAIN ids : NaN \in Range(ids[i])

RECURSIVE insert_sorted(_, _)
insert_sorted(x, sorted) ==
    IF sorted = <<>> THEN <<x>>
    ELSE IF key_less(x, Head(sorted)) THEN <<x>> \o sorted
    ELSE <<Head(sorted)>> \o insert_sorted(x, Tail(sorted))

RECURSIVE sort(_)
sort(ids) ==
    IF ids = <<>> THEN <<>>
    ELSE insert_sorted(ids[Len(ids)], sort(SubSeq(ids, 1, Len(ids) - 1)))

\* try: ids.sort() except: pass
try_sort(ids) == IF sort_raises(ids) THEN ids ELSE sort(ids)

\* The order pandas sorts merge keys by: lexicographic, missing values last.
RECURSIVE merge_key_less(_, _)
merge_key_less(a, b) ==
    IF a = <<>> \/ b = <<>> THEN a = <<>> /\ b # <<>>
    ELSE IF a[1] = b[1] THEN merge_key_less(Tail(a), Tail(b))
    ELSE IF isna(b[1]) THEN TRUE
    ELSE IF isna(a[1]) THEN FALSE
    ELSE StrLess(a[1], b[1])

\* df.to_dict('records') of the rows at the given positions.
records_at(df, idx) == [n \in DOMAIN idx |-> df.rows[idx[n]]]

\* The row positions of df that are in mask, in order.
positions(df, mask) ==
    SelectSeq([i \in DOMAIN df.rows |-> i], LAMBDA i : i \in mask)

-----------------------------------------------------------------------------
(* Key uniqueness (comparator_33.py only).                                 *)

\* df.duplicated(subset=keys), keep='first': the first row of a repeated key
\* is not marked.
duplicated_keep_first(df, keys) ==
    positions(df, {i \in DOMAIN df.rows : \E j \in DOMAIN df.rows :
                 j < i /\ key_of(df.rows[j], keys) = key_of(df.rows[i], keys)})

\* df.duplicated(subset=keys, keep=False): every row whose key occurs at
\* least twice.
duplicated(df, keys) ==
    positions(df, {i \in DOMAIN df.rows : \E j \in DOMAIN df.rows :
                 j # i /\ key_of(df.rows[j], keys) = key_of(df.rows[i], keys)})

\* .unique() / .drop_duplicates(): first occurrences, in order.
RECURSIVE unique(_)
unique(seq) ==
    IF seq = <<>> THEN <<>>
    ELSE LET init == SubSeq(seq, 1, Len(seq) - 1)
             last == seq[Len(seq)]
         IN  IF last \in Range(init) THEN unique(init)
             ELSE Append(unique(init), last)

duplicate_keys_of(s, df, path, which) ==
    LET dupes == duplicated(df, s.key_columns)
        ids   == unique([n \in DOMAIN dupes |->
                            key_of(df.rows[dupes[n]], s.key_columns)])
    IN  IF dupes = <<>> THEN s
        ELSE [s EXCEPT
                !.errors = Append(@,
                    [msg |-> "Duplicate keys found", file |-> which,
                     count |-> Len(dupes), ids |-> ids]),
                !.structured_differences = Append(@,
                    [type |-> "duplicate_keys", file |-> path,
                     count |-> Len(dupes),
                     ids |-> [n \in DOMAIN ids |-> key_str(ids[n])],
                     full_rows |-> records_at(df, dupes)])]

\* comparator_33.py, CSVComparator.validate_key_uniqueness
validate_key_uniqueness(s) ==
    IF s.key_columns = <<>> THEN [self |-> s, ret |-> TRUE] ELSE
    LET s1 == IF s.df1.loaded
              THEN duplicate_keys_of(s, s.df1, s.file1_path, "File 1")
              ELSE s
        s2 == IF s.df2.loaded
              THEN duplicate_keys_of(s1, s.df2, s.file2_path, "File 2")
              ELSE s1
    IN  [self |-> s2,
         ret  |-> /\ (s.df1.loaded => duplicated(s.df1, s.key_columns) = <<>>)
                  /\ (s.df2.loaded => duplicated(s.df2, s.key_columns) = <<>>)]

-----------------------------------------------------------------------------
(* Record comparison.                                                      *)

\* Number of ids quoted in the "Missing records" / "Additional records"
\* message (ids[:10]).
IdsPreview == 10

\* Number of cells listed by the positional content_mismatch entry
\* (changed.head(50)).
DetailsPreview == 50

Min(a, b) == IF a < b THEN a ELSE b

\* Row positions in the order of the merged frame: pd.merge(how='outer')
\* sorts by key and keeps the source order among equal keys.
RECURSIVE insert_by_key(_, _, _, _)
insert_by_key(i, sorted, df, keys) ==
    IF sorted = <<>> THEN <<i>>
    ELSE IF merge_key_less(key_of(df.rows[i], keys),
                           key_of(df.rows[Head(sorted)], keys))
    THEN <<i>> \o sorted
    ELSE <<Head(sorted)>> \o insert_by_key(i, Tail(sorted), df, keys)

RECURSIVE merge_order(_, _, _)
merge_order(idx, df, keys) ==
    IF idx = <<>> THEN <<>>
    ELSE insert_by_key(idx[1], merge_order(Tail(idx), df, keys), df, keys)

\* Rows of `df` whose key has no match in `other`: the left_only (or
\* right_only) rows of the merged frame, in df's order.
only_in(df, other, keys) ==
    positions(df, {i \in DOMAIN df.rows :
                     key_of(df.rows[i], keys) \notin keys_of(other, keys)})

\* comparator.py 119-144 and 148-172: the missing_records or
\* additional_records entry for the rows of `df` without a partner.
exclusive_records(s, df, other, type, msg, path) ==
    LET keys == s.key_columns
        only == only_in(df, other, keys)
        mo   == merge_order(only, df, keys)
        ids  == try_sort([n \in DOMAIN mo |-> key_of(df.rows[mo[n]], keys)])
    IN  IF only = <<>> THEN s
        ELSE [s EXCEPT
                !.differences = Append(@,
                    [msg |-> msg, count |-> Len(ids),
                     ids |-> SubSeq(ids, 1, Min(IdsPreview, Len(ids)))]),
                !.structured_differences = Append(@,
                    [type |-> type, exclusive_to_file |-> path,
                     count |-> Len(ids),
                     ids |-> [n \in DOMAIN ids |-> key_str(ids[n])],
                     full_rows |-> records_at(df, only)])]

\* The rows of merged[_merge == 'both'] as pairs <<row of df1, row of df2>>,
\* in the merged frame's order.
RECURSIVE pairs_of(_, _, _, _)
pairs_of(left, df1, df2, keys) ==
    IF left = <<>> THEN <<>>
    ELSE LET i == Head(left)
             partners == positions(df2, {j \in DOMAIN df2.rows :
                 key_of(df2.rows[j], keys) = key_of(df1.rows[i], keys)})
         IN  [n \in DOMAIN partners |-> <<i, partners[n]>>]
             \o pairs_of(Tail(left), df1, df2, keys)

\* A pairing of the rows by position instead of by key.
common_rows_positional(df1, df2, keys) ==
    [n \in 1..Min(Len(df1.rows), Len(df2.rows)) |-> <<n, n>>]

common_rows(df1, df2, keys) ==
    pairs_of(merge_order([i \in DOMAIN df1.rows |-> i], df1, keys),
             df1, df2, keys)

\* list(a_set): Python does not fix the iteration order of a set of strings
\* (it follows the per-process string hash); `order` is the order this run
\* iterates column names in.
list_of(set, order) == SelectSeq(order, LAMBDA c : c \in set)

\* comparator.py 212-252: the differences of one common row.
row_diffs(v, s, r1, r2, columns_to_check, common_columns) ==
    LET keys  == s.key_columns
        key   == key_of(r1, keys)
        diffs == SelectSeq(columns_to_check, LAMBDA c :
                    NormalizeVal(v, r1[c]) # NormalizeVal(v, r2[c]))
        full  == Range(keys) \cup common_columns
    IN  [s EXCEPT
           !.differences = @ \o
               [n \in DOMAIN diffs |->
                   [msg |-> "Key, Col differ", key |-> key_str(key),
                    col |-> diffs[n],
                    file1_value |-> NormalizeVal(v, r1[diffs[n]]),
                    file2_value |-> NormalizeVal(v, r2[diffs[n]])]],
           !.structured_differences = Append(@,
               [type |-> "content_mismatch",
                key |-> key_str(key),
                diff_count |-> Len(diffs),
                cell_diffs |-> [n \in DOMAIN diffs |->
                    [col |-> diffs[n],
                     file1_value |-> NormalizeVal(v, r1[diffs[n]]),
                     file2_value |-> NormalizeVal(v, r2[diffs[n]])]],
                full_row_file1 |-> [c \in full |-> r1[c]],
                full_row_file2 |->
                    [c \in full |-> IF c \in Range(keys) THEN r1[c] ELSE r2[c]]])]

\* Every common row is taken for a differing one.
is_diff_always(v, r1, r2, columns_to_check) == TRUE

\* is_diff_mask of one common row.
is_diff(v, r1, r2, columns_to_check) ==
    \E c \in Range(columns_to_check) :
        NormalizeVal(v, r1[c]) # NormalizeVal(v, r2[c])

RECURSIVE content_diffs(_, _, _, _, _)
content_diffs(v, s, pairs, columns_to_check, common_columns) ==
    IF pairs = <<>> THEN s
    ELSE LET r1 == s.df1.rows[Head(pairs)[1]]
             r2 == s.df2.rows[Head(pairs)[2]]
             s1 == IF is_diff(v, r1, r2, columns_to_check)
                   THEN row_diffs(v, s, r1, r2, columns_to_check, common_columns)
                   ELSE s
         IN  content_diffs(v, s1, Tail(pairs), columns_to_check, common_columns)

has_type(structured, type) ==
    \E n \in DOMAIN structured : structured[n].type = type

\* CSVComparator._compare_with_key
compare_with_key(v, s, order) ==
    LET keys   == s.key_columns
        s1     == exclusive_records(s, s.df1, s.df2, "missing_records",
                      "Missing records (in File 1 but not File 2)",
                      s.file1_path)
        s2     == exclusive_records(s1, s.df2, s.df1, "additional_records",
                      "Additional records (in File 2 but not File 1)",
                      s.file2_path)
        cols1  == columns(s.df1)
        cols2  == columns(s.df2)
        common_columns   == cols1 \cap cols2
        columns_to_check == list_of(common_columns \ Range(keys), order)
        skipped_cols     == (cols1 \cup cols2) \ common_columns
        s3     == IF skipped_cols # {}
                  THEN [s2 EXCEPT !.differences = Append(@,
                           [msg |-> "Skipping comparison for mismatched columns",
                            cols |-> skipped_cols])]
                  ELSE s2
        s4     == IF columns_to_check = <<>> THEN s3
                  ELSE content_diffs(v, s3, common_rows(s.df1, s.df2, keys),
                                     columns_to_check, common_columns)
    IN  [self |-> s4,
         ret  |-> /\ only_in(s.df1, s.df2, keys) = <<>>
                  /\ only_in(s.df2, s.df1, keys) = <<>>
                  /\ ~has_type(s4.structured_differences, "content_mismatch")]

\* df.shape
shape(df) == <<Len(df.rows), Len(df.header)>>

\* An equality that follows IEEE: a missing value differs from itself.
equals_elementwise(df1, df2) ==
    /\ df1.header = df2.header
    /\ Len(df1.rows) = Len(df2.rows)
    /\ \A i \in DOMAIN df1.rows : \A c \in columns(df1) :
           /\ df1.rows[i][c] = df2.rows[i][c]
           /\ ~isna(df1.rows[i][c])

\* df1.equals(df2): same labels, same shape, equal cells; missing values in
\* the same place count as equal.
equals(df1, df2) ==
    /\ df1.header = df2.header
    /\ Len(df1.rows) = Len(df2.rows)
    /\ \A i \in DOMAIN df1.rows : \A c \in columns(df1) :
           df1.rows[i][c] = df2.rows[i][c]

\* df1 != df2 raises ValueError unless both frames carry the same row index
\* and the same column labels in the same order.
indexed_same(df1, df2) ==
    df1.header = df2.header /\ Len(df1.rows) = Len(df2.rows)

\* df1 != df2 alone, stacked row by row: a missing value differs from
\* every value, itself included.
changed_cells_unmasked(df1, df2) ==
    LET cells == [n \in 1..(Len(df1.rows) * Len(df1.header)) |->
                    <<((n - 1) \div Len(df1.header)) + 1,
                      df1.header[((n - 1) % Len(df1.header)) + 1]>>]
    IN  SelectSeq(cells, LAMBDA rc :
            \/ df1.rows[rc[1]][rc[2]] # df2.rows[rc[1]][rc[2]]
            \/ isna(df1.rows[rc[1]][rc[2]]))

\* (df1 != df2) & ~(df1.isnull() & df2.isnull()), stacked row by row, the
\* True entries only.
changed_cells(df1, df2) ==
    LET cells == [n \in 1..(Len(df1.rows) * Len(df1.header)) |->
                    <<((n - 1) \div Len(df1.header)) + 1,
                      df1.header[((n - 1) % Len(df1.header)) + 1]>>]
    IN  SelectSeq(cells, LAMBDA rc :
            /\ df1.rows[rc[1]][rc[2]] # df2.rows[rc[1]][rc[2]]
            /\ ~(isna(df1.rows[rc[1]][rc[2]]) /\ isna(df2.rows[rc[1]][rc[2]])))

\* CSVComparator._compare_positional
compare_positional(s) ==
    LET df1 == s.df1
        df2 == s.df2
        s1  == IF shape(df1) # shape(df2)
               THEN [s EXCEPT
                       !.differences = Append(@,
                           [msg |-> "Shape mismatch",
                            file1_shape |-> shape(df1),
                            file2_shape |-> shape(df2)]),
                       !.structured_differences = Append(@,
                           [type |-> "shape_mismatch",
                            file1_shape |-> shape(df1),
                            file2_shape |-> shape(df2)])]
               ELSE s
        comparison == equals(df1, df2)
        s2  == [s1 EXCEPT !.differences = Append(@,
                   [msg |-> "Content mismatch found in records."])]
        changed == changed_cells(df1, df2)
        head    == SubSeq(changed, 1, Min(DetailsPreview, Len(changed)))
        s3  == [s2 EXCEPT
                   !.differences = (Append(@,
                       [msg |-> "Found specific cell differences",
                        count |-> Len(changed)])) \o
                       [n \in DOMAIN head |->
                           [msg |-> "Row, Col differ",
                            row |-> head[n][1] - 1, col |-> head[n][2],
                            file1_value |-> str(df1.rows[head[n][1]][head[n][2]]),
                            file2_value |-> str(df2.rows[head[n][1]][head[n][2]])]],
                   !.structured_differences = Append(@,
                       [type |-> "content_mismatch",
                        diff_count |-> Len(changed),
                        details |-> [n \in DOMAIN head |->
                            [row |-> head[n][1] - 1, col |-> head[n][2],
                             file1_value |-> str(df1.rows[head[n][1]][head[n][2]]),
                             file2_value |-> str(df2.rows[head[n][1]][head[n][2]])]]])]
    IN  IF comparison THEN [self |-> s1, ret |-> TRUE]
        ELSE IF ~indexed_same(df1, df2)
        THEN [self |-> [s2 EXCEPT !.errors = Append(@,
                           [msg |-> "Error during record comparison"])],
              ret |-> FALSE]
        ELSE IF changed = <<>> THEN [self |-> s2, ret |-> FALSE]
        ELSE [self |-> s3, ret |-> FALSE]

\* A comparison that gives up when the two headers differ.
compare_records_same_headers(v, s, order) ==
    IF ~s.df1.loaded \/ ~s.df2.loaded \/ s.df1.header # s.df2.header
    THEN [self |-> s, ret |-> FALSE]
    ELSE IF s.key_columns # <<>> THEN compare_with_key(v, s, order)
    ELSE compare_positional(s)

\* CSVComparator.compare_records
compare_records(v, s, order) ==
    IF ~s.df1.loaded \/ ~s.df2.loaded THEN [self |-> s, ret |-> FALSE]
    ELSE IF s.key_columns # <<>> THEN compare_with_key(v, s, order)
    ELSE compare_positional(s)

-----------------------------------------------------------------------------
(* run_comparison.                                                         *)

\* "Key column" in err
is_key_column_error(err) == err.msg = "Key column not found"

count_type(structured, type) ==
    Cardinality({n \in DOMAIN structured : structured[n].type = type})

\* The count of the last entry of the given type, 0 without one
\* (comparator.py 337-341).
last_count(structured, type) ==
    IF has_type(structured, type)
    THEN structured[CHOOSE n \in DOMAIN structured :
            /\ structured[n].type = type
            /\ \A m \in DOMAIN structured :
                   structured[m].type = type => m <= n].count
    ELSE 0

\* round(matching_rows / universe * 100, 2), in hundredths of a percent
\* (3333 stands for 33.33).  No quotient of the model's row counts lies
\* half-way between two hundredths, so rounding to nearest is exact.
percentage(matching_rows, universe) ==
    (2 * 10000 * matching_rows + universe) \div (2 * universe)

\* comparator.py 329-370: the summary dictionary.
summary_of(s) ==
    LET total_f1 == IF s.df1.loaded THEN Len(s.df1.rows) ELSE 0
        total_f2 == IF s.df2.loaded THEN Len(s.df2.rows) ELSE 0
        missing_count     == last_count(s.structured_differences, "missing_records")
        additional_count  == last_count(s.structured_differences, "additional_records")
        content_diff_rows == count_type(s.structured_differences, "content_mismatch")
        matching_rows == IF s.key_columns # <<>> /\ s.df1.loaded
                         THEN total_f1 - missing_count ELSE 0
        match_pct == IF total_f1 + additional_count > 0
                     THEN percentage(matching_rows, total_f1 + additional_count)
                     ELSE 0
    IN  [total_rows_file1 |-> total_f1,
         total_rows_file2 |-> total_f2,
         missing_records |-> missing_count,
         additional_records |-> additional_count,
         rows_with_differences |-> content_diff_rows,
         matching_rows_perfect |-> matching_rows - content_diff_rows,
         matching_percentage |-> match_pct]

\* A success flag that does not look at the differences list.
success_of_errors_only(ok_headers, ok_records, s) ==
    /\ ok_headers
    /\ ok_records
    /\ s.errors = <<>>

\* comparator.py 373: success = headers_ok and records_ok and not
\* self.errors and not self.differences
success_of(ok_headers, ok_records, s) ==
    /\ ok_headers
    /\ ok_records
    /\ s.errors = <<>>
    /\ s.differences = <<>>

\* No Result yet.
NoResult == [pending |-> TRUE]

\* The locals of run_comparison before its first statement.
start(s) ==
    [self |-> s, pc |-> "load_files", headers_ok |-> FALSE,
     is_fatal |-> FALSE, records_ok |-> FALSE, result |-> NoResult]

\* One statement of CSVComparator.run_comparison, the call it makes
\* included.  st.pc names the call that comes next.
step(v, files, order, st) ==
    CASE st.pc = "load_files" ->
           LET r == load_files(v, files, st.self)
           IN  IF ~r.ret
               THEN [st EXCEPT !.self = r.self, !.pc = "done",
                        !.result = [success |-> FALSE,
                                    errors |-> r.self.errors,
                                    differences |-> <<>>,
                                    structured_differences |-> <<>>]]
               ELSE [st EXCEPT !.self = r.self, !.pc = "validate_headers"]
      [] st.pc = "validate_headers" ->
           LET r     == validate_headers(st.self)
               fatal == /\ r.self.key_columns # <<>>
                        /\ \E n \in DOMAIN r.self.errors :
                               is_key_column_error(r.self.errors[n])
           IN  [st EXCEPT !.self = r.self, !.headers_ok = r.ret,
                          !.is_fatal = fatal,
                          !.pc = IF fatal THEN "summary"
                                 ELSE IF v = "comparator_33"
                                         /\ r.self.key_columns # <<>>
                                 THEN "validate_key_uniqueness"
                                 ELSE "compare_records"]
      [] st.pc = "validate_key_uniqueness" ->
           LET r == validate_key_uniqueness(st.self)
           IN  [st EXCEPT !.self = r.self, !.is_fatal = ~r.ret,
                          !.pc = IF r.ret THEN "compare_records"
                                 ELSE "summary"]
      [] st.pc = "compare_records" ->
           LET r == compare_records(v, st.self, order)
           IN  [st EXCEPT !.self = r.self, !.records_ok = r.ret,
                          !.pc = "summary"]
      [] st.pc = "summary" ->
           [st EXCEPT !.pc = "done",
               !.result =
                   [success |-> success_of(st.headers_ok, st.records_ok,
                                           st.self),
                    summary |-> summary_of(st.self),
                    errors |-> st.self.errors,
                    differences |-> st.self.differences,
                    structured_differences |-> st.self.structured_differences]]
      [] OTHER -> st

\* CSVComparator.run_comparison from its first statement to its return.
run_comparison(v, files, order, s) ==
    step(v, files, order, step(v, files, order, step(v, files, order,
        step(v, files, order, step(v, files, order, start(s))))))

\* CSVComparator.__init__
new_comparator(file1_path, file2_path, key_columns, ignore_columns) ==
    [file1_path |-> file1_path, file2_path |-> file2_path,
     key_columns |-> key_columns, ignore_columns |-> ignore_columns,
     df1 |-> None, df2 |-> None,
     errors |-> <<>>, differences |-> <<>>, structured_differences |-> <<>>]

-----------------------------------------------------------------------------
(* The inputs.                                                             *)

Variants == {"comparator", "comparator_33"}

\* The header lines of the source files.
Headers ==
    {<<"id", "val">>, <<"id", "val", "noise">>, <<"id">>, <<"val", "noise">>}

\* Cells a table of any length may hold.
PlainCells(c) ==
    CASE c = "id"    -> {<<"2">>, <<"1", "0">>}
      [] c = "val"   -> {<<"8", "0">>, <<"8", "0", ".", "0">>}
      [] c = "noise" -> {}

\* Cells only a single-row table holds: trailing U+00A0, the empty field,
\* the replacement character, and every cell of the noise column.
EdgeCells(c) ==
    CASE c = "id"    -> {}
      [] c = "val"   -> {<<"8", "0", "NBSP">>, <<>>, <<"FFFD">>}
      [] c = "noise" -> {<<"x">>, <<"y">>}

AnyCells(c) == PlainCells(c) \cup EdgeCells(c)

RowsOver(h, edge) ==
    {r \in [Range(h) -> UNION {AnyCells(c) : c \in Range(h)}] :
        \A c \in Range(h) :
            r[c] \in (IF edge THEN AnyCells(c) ELSE PlainCells(c))}

\* The data rows of a file with header h: up to MaxRows rows of plain
\* cells, or one row of any cells.
Tables(h) ==
    UNION {[1..n -> RowsOver(h, FALSE)] : n \in 0..MaxRows}
    \cup {<<r>> : r \in RowsOver(h, TRUE)}

Files ==
    {[kind |-> "missing", header |-> <<>>, rows |-> <<>>],
     [kind |-> "empty", header |-> <<>>, rows |-> <<>>],
     [kind |-> "latin1", header |-> <<"id", "val">>,
      rows |-> <<[id |-> <<"2">>, val |-> <<"8", "0", "NBSP">>]>>]}
    \cup UNION {{[kind |-> "utf8", header |-> h, rows |-> t] : t \in Tables(h)} :
                  h \in Headers}

KeyColumns == {<<>>, <<"id">>, <<"id", "val">>}

IgnoreColumns == {{}, {"noise"}}

\* The two iteration orders a set of column names is listed in.
ColumnOrders == {<<"id", "val", "noise">>, <<"noise", "val", "id">>}

-----------------------------------------------------------------------------
(* The state machine.                                                      *)

\* No helper function is called on its own.
NoCall == [fn |-> "none"]

NoFrame == [pc |-> "none"]

\* No batch is run.
NoOrchestrator == [results_summary |-> <<>>]

\* A new instance on files drawn from `files`, run_comparison just called.
InitOn(files, ignores) ==
    /\ variant \in Variants
    /\ fs \in [{"A.csv", "B.csv"} -> files]
    /\ \E k \in KeyColumns, ign \in ignores :
           self = new_comparator("A.csv", "B.csv", k, ign)
    /\ pc = "load_files"
    /\ headers_ok = FALSE
    /\ is_fatal = FALSE
    /\ records_ok = FALSE
    /\ result = NoResult
    /\ calls = 1
    /\ first = NoResult
    /\ call = NoCall
    /\ frame = NoFrame
    /\ ret = <<>>
    /\ orchestrator = NoOrchestrator

Init == InitOn(Files, IgnoreColumns)

locals == [self |-> self, pc |-> pc, headers_ok |-> headers_ok,
           is_fatal |-> is_fatal, records_ok |-> records_ok,
           result |-> result]

\* The locals and the instance become those of st.
Assign(st) ==
    /\ self' = st.self
    /\ pc' = st.pc
    /\ headers_ok' = st.headers_ok
    /\ is_fatal' = st.is_fatal
    /\ records_ok' = st.records_ok
    /\ result' = st.result
    /\ UNCHANGED <<variant, fs, helper, orchestrator>>

Apply(st) == Assign(st) /\ UNCHANGED caller

LoadFiles ==
    /\ pc = "load_files"
    /\ Apply(step(variant, fs, <<>>, locals))

ValidateHeaders ==
    /\ pc = "validate_headers"
    /\ Apply(step(variant, fs, <<>>, locals))

ValidateKeyUniqueness ==
    /\ pc = "validate_key_uniqueness"
    /\ Apply(step(variant, fs, <<>>, locals))

CompareRecords ==
    /\ pc = "compare_records"
    /\ \E order \in ColumnOrders : Apply(step(variant, fs, order, locals))

Summary ==
    /\ pc = "summary"
    /\ Apply(step(variant, fs, <<>>, locals))

Next ==
    \/ LoadFiles
    \/ ValidateHeaders
    \/ ValidateKeyUniqueness
    \/ CompareRecords
    \/ Summary

Spec == Init /\ [][Next]_vars

\* The caller calls run_comparison again on the same instance: the locals
\* start afresh, the attributes of `self` are what the last call left.
Rerun ==
    /\ pc = "done"
    /\ calls < MaxCalls
    /\ calls' = calls + 1
    /\ first' = IF calls = 1 THEN result ELSE first
    /\ Assign(start(self))

\* Files with the header id,val, and the files that do not load.
TwoColumnFiles == {f \in Files : f.header \in {<<>>, <<"id", "val">>}}

\* The longest file of the runs on key-only files.
MaxKeyRows == 3

\* Runs on files that hold the id column alone, long enough to repeat one
\* key beside another.
SpecKeys ==
    /\ InitOn({[kind |-> "utf8", header |-> <<"id">>, rows |-> t] :
                  t \in UNION {[1..n -> RowsOver(<<"id">>, FALSE)] :
                                  n \in 0..MaxKeyRows}}, {{}})
    /\ [][Next]_vars

InitReentry == InitOn(TwoColumnFiles, {{}})

NextReentry == Next \/ Rerun

SpecReentry == InitReentry /\ [][NextReentry]_vars

\* The longest file of the long-file runs, one row more than the preview
\* of cell differences shows.
MaxLongRows == 51

\* The row counts of the long files: one row, as many rows of two columns
\* as the preview has lines, and more rows than the preview has lines.
LongLengths == {1, DetailsPreview \div 2, MaxLongRows}

\* The val column of a long file: the same letter in every row, or the
\* field left empty in every second row.
val_cell(pattern, i) ==
    CASE pattern = "a" -> <<"a">>
      [] pattern = "a_or_empty" -> IF i % 2 = 0 THEN NaN ELSE <<"a">>
      [] pattern = "e_or_empty" -> IF i % 2 = 0 THEN NaN ELSE <<"e">>

\* Long files without an id column, and the one-row files with the header
\* id,val.
LongFiles ==
    {[kind |-> "utf8", header |-> <<"val">>,
      rows |-> [i \in 1..n |-> [val |-> val_cell(p, i)]]] :
        n \in LongLengths, p \in {"a", "a_or_empty", "e_or_empty"}}
    \cup
    {[kind |-> "utf8", header |-> <<"val", "noise">>,
      rows |-> [i \in 1..n |-> [val |-> val_cell(p, i), noise |-> <<x>>]]] :
        n \in LongLengths, p \in {"a", "a_or_empty", "e_or_empty"}, x \in {"x", "y"}}
    \cup
    {f \in TwoColumnFiles : Len(f.rows) = 1}

InitLong == InitOn(LongFiles, {{}})

SpecLong == InitLong /\ [][Next]_vars

\* No comparison is under way: the instance is new and is not run.
Idle ==
    /\ fs = [p \in {"A.csv", "B.csv"} |->
                [kind |-> "missing", header |-> <<>>, rows |-> <<>>]]
    /\ self = new_comparator("A.csv", "B.csv", <<>>, {})
    /\ pc = "idle"
    /\ headers_ok = FALSE
    /\ is_fatal = FALSE
    /\ records_ok = FALSE
    /\ result = NoResult
    /\ calls = 0
    /\ first = NoResult

NoComparison == variant = "comparator" /\ Idle

comparison == <<variant, fs, self, pc, headers_ok, is_fatal, records_ok,
                result, caller>>

-----------------------------------------------------------------------------
(* The normalisation functions, called on their own.                       *)

\* The characters of the cells: a letter, the letter e, the combining acute
\* accent, the precomposed e with acute, the space and U+00A0.
Alphabet == {"a", "e", "ACUTE", "EACUTE", " ", "NBSP"}

\* The cell values: the missing value and the strings of up to MaxLen
\* characters.
CellValues == {NaN} \cup UNION {[1..n -> Alphabet] : n \in 0..MaxLen}

NormalizeFns ==
    {"comparator._normalize_val", "comparator_33._normalize_val",
     "comparator_33._normalize_unicode_cell"}

normalize(fn, v) ==
    CASE fn = "comparator._normalize_val" -> normalize_val(v)
      [] fn = "comparator_33._normalize_val" -> normalize_val_33(v)
      [] fn = "comparator_33._normalize_unicode_cell" ->
             normalize_unicode_cell(v)

\* Applications of a normalisation function to its own result.
MaxApply == 2

InitNormalize ==
    /\ NoComparison
    /\ orchestrator = NoOrchestrator
    /\ call \in [fn : NormalizeFns, arg : CellValues]
    /\ frame = NoFrame
    /\ ret = <<>>

\* The function is applied to the cell, then to what it returned.
Normalize ==
    /\ call.fn \in NormalizeFns
    /\ Len(ret) < MaxApply
    /\ ret' = Append(ret, normalize(call.fn,
                  IF ret = <<>> THEN call.arg ELSE ret[Len(ret)]))
    /\ UNCHANGED <<call, frame, comparison, orchestrator>>

NextNormalize == Normalize

SpecNormalize == InitNormalize /\ [][NextNormalize]_vars

-----------------------------------------------------------------------------
(* Reading a header with fallback over encodings and separators.           *)

\* validate_headers.py, COMMON_ENCODINGS and COMMON_SEPARATORS
COMMON_ENCODINGS == <<"utf-8", "utf-8-sig", "cp1252", "latin-1">>

COMMON_SEPARATORS == <<",", ";", "TAB", "|", ":">>

\* comparator_33.py, the encodings of _read_csv_robust
ROBUST_ENCODINGS ==
    <<"utf-8", "utf-8-sig", "cp1252", "latin1", "iso-8859-1">>

\* The preferred items first, then the common ones not among them.
preferred_first(preferred, common) ==
    preferred \o SelectSeq(common, LAMBDA e : \A n \in DOMAIN preferred :
                                                   preferred[n] # e)

\* The longest header line of the files read.
MaxLine == 3

\* A file whose header is read: absent, zero bytes long, or a text with a
\* header line of letters and separators.  `bytes` tells what the header
\* line is made of: ASCII only ("ascii"), a byte such as 0xE9 that is not
\* valid UTF-8 but is a character of cp1252 ("latin1"), or the byte 0x81,
\* which cp1252 does not define either ("x81").  `body` holds the
\* separators that occur in the data rows only.
HeaderFiles ==
    {[kind |-> "missing", bytes |-> "ascii", line |-> <<>>, body |-> {}],
     [kind |-> "empty", bytes |-> "ascii", line |-> <<>>, body |-> {}]}
    \cup
    {[kind |-> "text", bytes |-> b, line |-> l, body |-> d] :
        b \in {"ascii", "latin1", "x81"},
        l \in UNION {[1..n -> {"a", ",", ";"}] : n \in 1..MaxLine},
        d \in {{}, {"|"}}}

\* bytes.decode(enc) succeeds.
decodes(bytes, enc) ==
    CASE bytes = "ascii"  -> TRUE
      [] bytes = "latin1" ->
             enc \in {"cp1252", "latin-1", "latin1", "iso-8859-1"}
      [] bytes = "x81"    -> enc \in {"latin-1", "latin1", "iso-8859-1"}

\* line.split(sep)
RECURSIVE split(_, _)
split(line, sep) ==
    IF \A n \in DOMAIN line : line[n] # sep THEN <<line>>
    ELSE LET n == CHOOSE m \in DOMAIN line :
                      line[m] = sep /\ \A k \in 1..(m - 1) : line[k] # sep
         IN  <<SubSeq(line, 1, n - 1)>>
                 \o split(SubSeq(line, n + 1, Len(line)), sep)

NoError == [type |-> "None", text |-> "", encodings |-> <<>>]

\* pd.read_csv(file_path, sep=sep, encoding=enc): the columns of the
\* header, or the exception raised.
read_columns(file, sep, enc) ==
    CASE file.kind = "missing" ->
             [raised |-> TRUE,
              error |-> [type |-> "FileNotFoundError",
                         text |-> "No such file or directory",
                         encodings |-> <<>>]]
      [] file.kind = "empty" ->
             [raised |-> TRUE,
              error |-> [type |-> "EmptyDataError",
                         text |-> "No columns to parse from file",
                         encodings |-> <<>>]]
      [] file.kind = "text" /\ ~decodes(file.bytes, enc) ->
             [raised |-> TRUE,
              error |-> [type |-> "UnicodeDecodeError",
                         text |-> "codec can't decode byte",
                         encodings |-> <<>>]]
      [] OTHER ->
             [raised |-> FALSE, columns |-> split(file.line, sep)]

\* validate_headers.py, looks_like_single_column
looks_like_single_column(cols) == Len(cols) <= 1

\* validate_headers.py, sniff_separator: None, or a delimiter that
\* csv.Sniffer finds among the common separators of the sample.
sniff_separator(file) ==
    {"None"} \cup
    (IF file.kind = "text"
     THEN Range(COMMON_SEPARATORS) \cap (Range(file.line) \cup file.body)
     ELSE {})

\* type(last_err)(str(last_err)): UnicodeDecodeError takes five arguments,
\* so building one from the message alone raises TypeError.
rebuilt(last_err) ==
    IF last_err.type = "UnicodeDecodeError"
    THEN [type |-> "TypeError",
          text |-> "function takes exactly 5 arguments (1 given)",
          encodings |-> <<>>]
    ELSE last_err

\* read_header_with_fallback or _read_csv_robust has just been called.
InitHeader ==
    /\ NoComparison
    /\ orchestrator = NoOrchestrator
    /\ ret = <<>>
    /\ \E file \in HeaderFiles :
          \/ \E hint \in {<<>>, <<";">>, <<"|">>},
                pref \in {<<>>, <<"latin-1">>, <<"ascii">>} :
                /\ call = [fn |-> "read_header_with_fallback",
                           file |-> file, sep_hint |-> hint,
                           preferred_encoding |-> pref]
                /\ frame = [pc |-> "try_separator",
                            encodings |->
                                preferred_first(pref, COMMON_ENCODINGS),
                            enc |-> 1,
                            seps_to_try |->
                                preferred_first(hint, COMMON_SEPARATORS),
                            sep |-> 1,
                            last_err |-> NoError]
          \/ \E separator \in {";", ","} :
                /\ call = [fn |-> "_read_csv_robust", file |-> file,
                           separator |-> separator]
                /\ frame = [pc |-> "try_encoding",
                            encodings |-> ROBUST_ENCODINGS,
                            enc |-> 1,
                            seps_to_try |-> <<separator>>,
                            sep |-> 1,
                            last_err |-> NoError]

Returns(cols) ==
    /\ frame' = [frame EXCEPT !.pc = "returned"]
    /\ ret' = <<[headers |-> cols,
                 encoding |-> frame.encodings[frame.enc],
                 separator |-> frame.seps_to_try[frame.sep]]>>

Raises(exception) ==
    /\ frame' = [frame EXCEPT !.pc = "raised"]
    /\ ret' = <<exception>>

\* read_header_with_fallback, one pass of the loop over seps_to_try.
TrySeparator ==
    /\ frame.pc = "try_separator"
    /\ LET r == read_columns(call.file, frame.seps_to_try[frame.sep],
                             frame.encodings[frame.enc])
       IN  IF ~r.raised /\ ~looks_like_single_column(r.columns)
           THEN Returns(r.columns)
           ELSE /\ frame' =
                     [frame EXCEPT
                        !.last_err = IF r.raised THEN r.error ELSE @,
                        !.sep = IF frame.sep < Len(frame.seps_to_try)
                                THEN @ + 1 ELSE @,
                        !.pc = IF (r.raised
                                   /\ r.error.type = "UnicodeDecodeError")
                                  \/ frame.sep = Len(frame.seps_to_try)
                               THEN "sniff" ELSE @]
                /\ ret' = ret
    /\ UNCHANGED <<call, comparison, orchestrator>>

\* read_header_with_fallback, the sniffer step that ends the pass of one
\* encoding.
Sniff ==
    /\ frame.pc = "sniff"
    /\ \E auto_sep \in sniff_separator(call.file) :
          LET r == read_columns(call.file, auto_sep,
                                frame.encodings[frame.enc])
              tried == auto_sep # "None"
          IN  IF tried /\ ~r.raised /\ ~looks_like_single_column(r.columns)
              THEN /\ frame' = [frame EXCEPT !.pc = "returned"]
                   /\ ret' = <<[headers |-> r.columns,
                                encoding |-> frame.encodings[frame.enc],
                                separator |-> auto_sep]>>
              ELSE /\ frame' =
                        [frame EXCEPT
                           !.last_err = IF tried /\ r.raised THEN r.error
                                        ELSE @,
                           !.enc = IF frame.enc < Len(frame.encodings)
                                   THEN @ + 1 ELSE @,
                           !.sep = 1,
                           !.pc = IF frame.enc < Len(frame.encodings)
                                  THEN "try_separator" ELSE "raise"]
                   /\ ret' = ret
    /\ UNCHANGED <<call, comparison, orchestrator>>

\* read_header_with_fallback, after the loop: the last error is raised
\* again, or a UnicodeDecodeError that names the encodings.
RaiseLast ==
    /\ frame.pc = "raise"
    /\ Raises(IF frame.last_err # NoError THEN rebuilt(frame.last_err)
              ELSE [type |-> "UnicodeDecodeError",
                    text |-> "Cannot decode/parse file. Tried encodings",
                    encodings |-> frame.encodings])
    /\ UNCHANGED <<call, comparison, orchestrator>>

\* _read_csv_robust, one pass of the loop over the encodings.  Under
\* pandas 1 the TypeError branch reads the file with open() first; it
\* returns and fails in the same cases.
TryEncoding ==
    /\ frame.pc = "try_encoding"
    /\ LET r == read_columns(call.file, call.separator,
                             frame.encodings[frame.enc])
       IN  IF ~r.raised THEN Returns(r.columns)
           ELSE /\ frame' =
                     [frame EXCEPT
                        !.last_err = r.error,
                        !.enc = IF frame.enc < Len(frame.encodings)
                                THEN @ + 1 ELSE @,
                        !.pc = IF frame.enc < Len(frame.encodings)
                               THEN @ ELSE "raise_undecodable"]
                /\ ret' = ret
    /\ UNCHANGED <<call, comparison, orchestrator>>

\* _read_csv_robust, after the loop.
RaiseUndecodable ==
    /\ frame.pc = "raise_undecodable"
    /\ Raises([type |-> "UnicodeDecodeError",
               text |-> "No se pudo decodificar",
               encodings |-> frame.encodings])
    /\ UNCHANGED <<call, comparison, orchestrator>>

NextHeader ==
    \/ TrySeparator
    \/ Sniff
    \/ RaiseLast
    \/ TryEncoding
    \/ RaiseUndecodable

SpecHeader == InitHeader /\ [][NextHeader]_vars

-----------------------------------------------------------------------------
(* The batch orchestrator: the configuration of one file.                  *)

\* d.get(k, default), for a dict d
dict_get(d, k, default) == IF k \in DOMAIN d THEN d[k] ELSE default

\* s.startswith(prefix)
startswith(s, prefix) ==
    Len(prefix) <= Len(s) /\ SubSeq(s, 1, Len(prefix)) = prefix

\* A loop that never breaks: the last matching rule is the one in force.
last_match(rules, filename) ==
    LET hits == {n \in DOMAIN rules :
                    LET pattern == dict_get(rules[n], "pattern", <<>>)
                    IN  pattern # <<>> /\ startswith(filename, pattern)}
    IN  IF hits = {} THEN 0
        ELSE CHOOSE n \in hits : \A m \in hits : n >= m

\* The first rule whose pattern is not empty and starts the filename, the
\* rule the loop breaks at; 0 when the loop ends without a break.
first_match(rules, filename) ==
    LET hits == {n \in DOMAIN rules :
                    LET pattern == dict_get(rules[n], "pattern", <<>>)
                    IN  pattern # <<>> /\ startswith(filename, pattern)}
    IN  IF hits = {} THEN 0
        ELSE CHOOSE n \in hits : \A m \in hits : n <= m

\* BatchOrchestrator._resolve_file_config; `if self.config` is false for
\* None and for the empty dict alike, both are the dict without keys here.
resolve_file_config(o, filename) ==
    LET rules == dict_get(o.config, "rules", <<>>)
        n     == first_match(rules, filename)
        rule  == IF n = 0 THEN <<>> ELSE rules[n]
        default_keys   == dict_get(o.config, "default_keys", o.keys)
        default_ignore == dict_get(o.config, "default_ignore_columns",
                                   o.ignore_columns)
        default_sep    == dict_get(o.config, "default_separator",
                                   o.separator)
    IN  IF DOMAIN o.config = {}
        THEN [keys |-> o.keys, ignore_columns |-> o.ignore_columns,
              separator |-> o.separator]
        ELSE [keys |-> dict_get(rule, "keys", default_keys),
              ignore_columns |->
                  dict_get(rule, "ignore_columns", default_ignore),
              separator |-> dict_get(rule, "separator", default_sep)]

\* A dict with the keys of `present` among those of `full`.
subdict(full, present) == [k \in present |-> full[k]]

\* The longest list of rules of a configuration.
MaxRules == 2

\* The rules of the configurations: a pattern that is empty, "a" or "ax",
\* and any of the three fields.
Rules ==
    {subdict([pattern |-> p, keys |-> <<"id", "val">>,
              ignore_columns |-> {"val"}, separator |-> ","],
             {"pattern"} \cup present) :
        p \in {<<>>, <<"a">>, <<"a", "x">>},
        present \in SUBSET {"keys", "ignore_columns", "separator"}}

\* The configurations: any of the three defaults, up to MaxRules rules.
Configs ==
    {subdict([default_keys |-> <<"val">>,
              default_ignore_columns |-> {"noise"},
              default_separator |-> "|", rules |-> rules],
             present \cup (IF rules = <<>> THEN {} ELSE {"rules"})) :
        rules \in UNION {[1..n -> Rules] : n \in 0..MaxRules},
        present \in SUBSET {"default_keys", "default_ignore_columns",
                            "default_separator"}}

\* The file names: a.csv, ax.csv, e.csv and a.txt.
FileNames ==
    {<<"a", ".", "c", "s", "v">>, <<"a", "x", ".", "c", "s", "v">>,
     <<"e", ".", "c", "s", "v">>, <<"a", ".", "t", "x", "t">>}

\* BatchOrchestrator.__init__ with the key id and the separator ';' on the
\* command line.
new_orchestrator(dir_a, dir_b, config) ==
    [dir_a |-> dir_a, dir_b |-> dir_b,
     keys |-> <<"id">>, ignore_columns |-> {}, separator |-> ";",
     config |-> config, results_summary |-> <<>>]

InitResolve ==
    /\ NoComparison
    /\ \E config \in Configs :
           orchestrator = new_orchestrator(<<>>, <<>>, config)
    /\ \E filename \in FileNames :
           call = [fn |-> "_resolve_file_config", filename |-> filename]
    /\ frame = NoFrame
    /\ ret = <<>>

\* _resolve_file_config is called and returns.
ResolveFileConfig ==
    /\ call.fn = "_resolve_file_config"
    /\ ret = <<>>
    /\ ret' = <<resolve_file_config(orchestrator, call.filename)>>
    /\ UNCHANGED <<call, frame, comparison, orchestrator>>

NextResolve == ResolveFileConfig

SpecResolve == InitResolve /\ [][NextResolve]_vars

\* f.lower().endswith('.csv'), for the lower-case names of the model
is_csv(name) ==
    Len(name) >= 4
    /\ SubSeq(name, Len(name) - 3, Len(name)) = <<".", "c", "s", "v">>

-----------------------------------------------------------------------------
(* The header validator: the encoding of one file.                         *)
(* An Optional[str] is <<>> for None and <<s>> for the string s.           *)

\* sub in s, for two strings
contains(s, sub) ==
    \E i \in 1..(Len(s) - Len(sub) + 1) : SubSeq(s, i, i + Len(sub) - 1) = sub

\* validate_headers.py, get_encoding_for_file, `rules` being the rules the
\* loop has still to look at: the encoding of the first rule whose pattern
\* occurs in the file name and that has one, else the configuration's
\* default_encoding, else cli_default, else None.
RECURSIVE get_encoding_for_file(_, _, _, _)
get_encoding_for_file(filename, rules, config, cli_default) ==
    IF rules # <<>>
    THEN LET rule == Head(rules)
         IN  IF /\ dict_get(rule, "pattern", <<>>) # <<>>
                /\ contains(filename, rule["pattern"])
                /\ dict_get(rule, "encoding", "") # ""
             THEN <<rule["encoding"]>>
             ELSE get_encoding_for_file(filename, Tail(rules), config,
                                        cli_default)
    ELSE IF dict_get(config, "default_encoding", "") # ""
    THEN <<config["default_encoding"]>>
    ELSE IF cli_default \notin {<<>>, <<"">>} THEN cli_default
    ELSE <<>>

\* The configurations of the validator: a default_encoding that is absent,
\* empty or latin-1, and up to MaxRules rules with a pattern that is empty,
\* "a" or "x" and an encoding that is absent, empty or utf-16.
EncodingConfigs ==
    LET rules_of == {subdict([pattern |-> p, encoding |-> e],
                             {"pattern"} \cup present) :
                        p \in {<<>>, <<"a">>, <<"x">>}, e \in {"", "utf-16"},
                        present \in SUBSET {"encoding"}}
    IN  {subdict([default_encoding |-> d, rules |-> rules],
                 present \cup (IF rules = <<>> THEN {} ELSE {"rules"})) :
            rules \in UNION {[1..n -> rules_of] : n \in 0..MaxRules},
            d \in {"", "latin-1"},
            present \in SUBSET {"default_encoding"}}

\* main has parsed the command line, with or without --encoding cp1252,
\* and loaded the configuration; it is about to resolve the defaults.
InitEncoding ==
    /\ NoComparison
    /\ orchestrator = NoOrchestrator
    /\ ret = <<>>
    /\ \E config \in EncodingConfigs,
          file_name \in {name \in FileNames : is_csv(name)},
          encoding \in {<<>>, <<"cp1252">>} :
           call = [fn |-> "main", config |-> config, file_name |-> file_name,
                   encoding |-> encoding]
    /\ frame = [pc |-> "defaults"]

\* validate_headers.py 328:
\* default_file_encoding = args.encoding or config.get("default_encoding")
DefaultFileEncoding ==
    /\ call.fn = "main"
    /\ frame.pc = "defaults"
    /\ frame' = [pc |-> "file",
                 default_file_encoding |->
                     IF call.encoding \notin {<<>>, <<"">>} THEN call.encoding
                     ELSE IF "default_encoding" \in DOMAIN call.config
                     THEN <<call.config["default_encoding"]>>
                     ELSE <<>>]
    /\ UNCHANGED <<call, ret, comparison, orchestrator>>

\* validate_headers.py 370: enc_for_this_file = get_encoding_for_file(...)
EncodingForFile ==
    /\ call.fn = "main"
    /\ frame.pc = "file"
    /\ ret' = <<get_encoding_for_file(call.file_name,
                                      dict_get(call.config, "rules", <<>>),
                                      call.config,
                                      frame.default_file_encoding)>>
    /\ frame' = [frame EXCEPT !.pc = "resolved"]
    /\ UNCHANGED <<call, comparison, orchestrator>>

SpecEncoding == InitEncoding /\ [][DefaultFileEncoding \/ EncodingForFile]_vars

-----------------------------------------------------------------------------
(* The batch orchestrator: one run over two directories.                   *)

\* files_a.sort()
RECURSIVE sorted_names(_)
sorted_names(names) ==
    IF names = {} THEN <<>>
    ELSE LET least == CHOOSE x \in names :
                          \A y \in names \ {x} : StrLess(x, y)
         IN  <<least>> \o sorted_names(names \ {least})

\* The orders os.listdir may list the names in.
listings(names) ==
    {l \in [1..Cardinality(names) -> names] : Range(l) = names}

\* Whether CSVComparator.__init__ of the module takes the keyword
\* `separator`: comparator.py lines 6-13 have no such parameter,
\* comparator_33.py lines 10-17 have.
accepts_separator(v) == v = "comparator_33"

\* orchestrator.py 160-190, the status of a Result
status_of(res) ==
    IF res.errors # <<>>
    THEN IF \E n \in DOMAIN res.errors : is_key_column_error(res.errors[n])
         THEN "KEY_NOT_FOUND"
         ELSE IF \E n \in DOMAIN res.errors :
                     res.errors[n].msg = "Duplicate keys found"
         THEN "DUPLICATE_KEYS"
         ELSE "ERROR"
    ELSE IF res.success THEN "OK" ELSE "DIFF"

\* orchestrator.py 111-123, result_entry as the loop creates it
new_entry(filename, keys) ==
    [file_name |-> filename, status |-> "UNKNOWN", keys_used |-> keys,
     total_rows_a |-> 0, total_rows_b |-> 0, diff_count |-> 0,
     missing_records |-> 0, additional_records |-> 0]

\* orchestrator.py 152-190: the entry filled in from the engine's Result
entry_of_result(entry, res) ==
    LET summary == dict_get(res, "summary", <<>>)
    IN  [entry EXCEPT
           !.total_rows_a = dict_get(summary, "total_rows_file1", 0),
           !.total_rows_b = dict_get(summary, "total_rows_file2", 0),
           !.missing_records = dict_get(summary, "missing_records", 0),
           !.additional_records = dict_get(summary, "additional_records", 0),
           !.diff_count =
               dict_get(summary, "matching_records_with_differences", 0),
           !.status = status_of(res)]

\* The files of the directories: one row, the same row with the value
\* written 80.0, and both rows under the same id.
BatchFiles ==
    LET r1 == [id |-> <<"2">>, val |-> <<"8", "0">>]
        r2 == [id |-> <<"2">>, val |-> <<"8", "0", ".", "0">>]
    IN  {[kind |-> "utf8", header |-> <<"id", "val">>, rows |-> t] :
            t \in {<<r1>>, <<r2>>, <<r1, r2>>}}

\* A directory: some of the given names, with their contents.
Directories(names) ==
    UNION {[present -> BatchFiles] : present \in SUBSET names}

\* No configuration file, a rule that leaves ax.csv without keys, and
\* default keys that name a column no file has.
BatchConfigs ==
    {<<>>,
     [rules |-> <<[pattern |-> <<"a", "x">>, keys |-> <<>>]>>],
     [default_keys |-> <<"noise">>]}

\* BatchOrchestrator.run is called.  `variant` is the module the class
\* CSVComparator is taken from: orchestrator.py line 8 takes it from
\* comparator.py; comparator_33.py defines the class of the same name
\* whose __init__ has the parameters the orchestrator passes.
InitBatch ==
    /\ variant \in Variants
    /\ Idle
    /\ \E dir_a \in Directories({n \in FileNames : n[1] = "a"}),
          dir_b \in Directories({n \in FileNames : n[1] = "a" /\ is_csv(n)}),
          config \in BatchConfigs :
           orchestrator = new_orchestrator(dir_a, dir_b, config)
    /\ call = [fn |-> "BatchOrchestrator.run"]
    /\ frame = [pc |-> "scan", files_a |-> <<>>, files_b |-> <<>>, idx |-> 1]
    /\ ret = <<>>

\* orchestrator.py 89-103: the directories are listed.
Scan ==
    /\ frame.pc = "scan"
    /\ \E files_b \in listings({n \in DOMAIN orchestrator.dir_b : is_csv(n)}) :
           frame' = [frame EXCEPT
                        !.pc = "process",
                        !.files_a = sorted_names(
                            {n \in DOMAIN orchestrator.dir_a : is_csv(n)}),
                        !.files_b = files_b]
    /\ UNCHANGED <<call, ret, comparison, orchestrator>>

\* The entry is appended and the loop goes to the next file of A.
NextFile(entry) ==
    /\ orchestrator' = [orchestrator EXCEPT
                           !.results_summary = Append(@, entry)]
    /\ frame' = [frame EXCEPT !.pc = "process", !.idx = @ + 1]

\* orchestrator.py 104-145 and 201-206: one pass of the loop over files_a
\* up to the call of run_comparison.  Without keys or without the file in
\* B the pass ends there; so it does, in the except clause, when the
\* constructor rejects the keyword separator.
ProcessFile ==
    /\ frame.pc = "process"
    /\ frame.idx <= Len(frame.files_a)
    /\ LET filename == frame.files_a[frame.idx]
           config   == resolve_file_config(orchestrator, filename)
           entry    == new_entry(filename, config.keys)
       IN  IF config.keys = <<>>
           THEN /\ NextFile([entry EXCEPT !.status = "NO_KEYS"])
                /\ UNCHANGED comparison
           ELSE IF filename \notin DOMAIN orchestrator.dir_b
           THEN /\ NextFile([entry EXCEPT !.status = "MISSING_IN_B"])
                /\ UNCHANGED comparison
           ELSE IF ~accepts_separator(variant)
           THEN /\ NextFile([entry EXCEPT !.status = "EXCEPTION"])
                /\ UNCHANGED comparison
           ELSE /\ frame' = [frame EXCEPT !.pc = "engine"]
                /\ fs' = [path \in {"A.csv", "B.csv"} |->
                             IF path = "A.csv"
                             THEN orchestrator.dir_a[filename]
                             ELSE orchestrator.dir_b[filename]]
                /\ self' = new_comparator("A.csv", "B.csv", config.keys,
                                          config.ignore_columns)
                /\ pc' = "load_files"
                /\ headers_ok' = FALSE
                /\ is_fatal' = FALSE
                /\ records_ok' = FALSE
                /\ result' = NoResult
                /\ UNCHANGED <<variant, caller, orchestrator>>
    /\ UNCHANGED <<call, ret>>

\* orchestrator.py 147-199: run_comparison has returned, the entry of the
\* file is filled in from its Result.
FinishFile ==
    /\ frame.pc = "engine"
    /\ pc = "done"
    /\ NextFile(entry_of_result(
           new_entry(frame.files_a[frame.idx], self.key_columns), result))
    /\ UNCHANGED <<call, ret, comparison>>

\* orchestrator.py 208-231: the files of B that A does not have, then the
\* master report.
MissingInA ==
    /\ frame.pc = "process"
    /\ frame.idx > Len(frame.files_a)
    /\ LET missing_in_a == SelectSeq(frame.files_b,
                               LAMBDA f : f \notin Range(frame.files_a))
       IN  orchestrator' = [orchestrator EXCEPT
               !.results_summary = @ \o
                   [n \in DOMAIN missing_in_a |->
                       [new_entry(missing_in_a[n], <<>>)
                           EXCEPT !.status = "MISSING_IN_A"]]]
    /\ frame' = [frame EXCEPT !.pc = "batch_done"]
    /\ UNCHANGED <<call, ret, comparison>>

\* The engine's statements run between ProcessFile and FinishFile.
NextBatch ==
    \/ Scan
    \/ ProcessFile
    \/ LoadFiles
    \/ ValidateHeaders
    \/ ValidateKeyUniqueness
    \/ CompareRecords
    \/ Summary
    \/ FinishFile
    \/ MissingInA

SpecBatch == InitBatch /\ [][NextBatch]_vars

-----------------------------------------------------------------------------
(* The file mover, mover_archivos_v3.py.                                   *)
(* `fs` holds the two trees: the directories of each, as paths relative to *)
(* its root (<<>> is the root itself), and the files of each.  A path is   *)
(* [dir, name, n]: the name `name` when n = 0 and `name (n)` otherwise, in *)
(* the directory dir.                                                      *)

\* The largest --retries of the runs.
MaxRetries == 2

\* unique_destination_path: the name itself when no such file exists, else
\* the first `name (i)` that does not exist.
unique_destination_path(files, dir, name) ==
    LET candidate(i) == [dir |-> dir, name |-> name, n |-> i]
    IN  IF candidate(0) \notin files THEN candidate(0)
        ELSE candidate(CHOOSE i \in 1..(Cardinality(files) + 1) :
                 /\ candidate(i) \notin files
                 /\ \A j \in 1..(i - 1) : candidate(j) \in files)

\* op_file when no call of shutil or unlink raises: the trees it leaves.
op_file(tree, src, dst, mode, dry_run) ==
    IF dry_run THEN tree
    ELSE CASE mode = "move" ->
                [tree EXCEPT !.dst.files = @ \cup {dst}, !.src.files = @ \ {src}]
           [] mode = "copy" ->
                [tree EXCEPT !.dst.files = @ \cup {dst}]
           [] mode = "copy_then_delete" ->
                [tree EXCEPT !.dst.files = @ \cup {dst}, !.src.files = @ \ {src}]

\* A loop that tries once more than it was told to.
retry_once_more(attempt, retries) == attempt <= retries

\* do_with_retries, line 160: the failed attempt is followed by another.
retry_again(attempt, retries) == attempt < retries

\* run is called: the source holds any of the files a and sub/a, or does
\* not exist; the destination does not exist, or exists with or without a
\* file a.  Every mode and option, retries up to MaxRetries, no directory
\* excluded or the directory sub, every extension included.
InitMover ==
    /\ variant = "comparator"
    /\ self = new_comparator("A.csv", "B.csv", <<>>, {})
    /\ pc = "idle"
    /\ headers_ok = FALSE
    /\ is_fatal = FALSE
    /\ records_ok = FALSE
    /\ result = NoResult
    /\ calls = 0
    /\ first = NoResult
    /\ orchestrator = NoOrchestrator
    /\ ret = <<>>
    /\ LET a == [dir |-> <<>>, name |-> "a", n |-> 0]
           b == [dir |-> <<"sub">>, name |-> "a", n |-> 0]
       IN  fs \in {[src |-> [dirs |-> {}, files |-> {}], dst |-> dst] :
                      dst \in {[dirs |-> {}, files |-> {}]}}
                  \cup
                  {[src |-> [dirs |-> {<<>>, <<"sub">>}, files |-> files],
                    dst |-> dst] :
                      files \in SUBSET {a, b},
                      dst \in {[dirs |-> {}, files |-> {}],
                               [dirs |-> {<<>>}, files |-> {}],
                               [dirs |-> {<<>>}, files |-> {a}]}}
    /\ \E mode \in {"move", "copy", "copy_then_delete"},
          dry_run, keep_structure, avoid_overwrite, skip_existing \in BOOLEAN,
          retries \in 0..MaxRetries, excluded_dirnames \in {{}, {"sub"}} :
           call = [fn |-> "run", mode |-> mode, dry_run |-> dry_run,
                   keep_structure |-> keep_structure,
                   avoid_overwrite |-> avoid_overwrite,
                   skip_existing |-> skip_existing, retries |-> retries,
                   excluded_dirnames |-> excluded_dirnames]
    /\ frame = [pc |-> "start"]

\* The variables the mover leaves alone.
untouched == <<variant, self, pc, headers_ok, is_fatal, records_ok, result, caller,
               orchestrator>>

\* run, lines 180-188: the source is checked, the destination directory is
\* made, rglob lists the source.
Start ==
    /\ call.fn = "run"
    /\ frame.pc = "start"
    /\ IF <<>> \notin fs.src.dirs
       THEN /\ frame' = [pc |-> "raised"]
            /\ fs' = fs
       ELSE /\ fs' = [fs EXCEPT !.dst.dirs = @ \cup {<<>>}]
            /\ frame' = [pc |-> "loop",
                         todo |-> {[dir |-> SubSeq(d, 1, Len(d) - 1),
                                    name |-> d[Len(d)], n |-> 0] :
                                       d \in fs.src.dirs \ {<<>>}}
                                  \cup fs.src.files,
                         stats |-> [ok |-> 0, skipped |-> 0, errors |-> 0],
                         rows |-> <<>>,
                         path |-> [dir |-> <<>>, name |-> "", n |-> 0],
                         target_path |-> [dir |-> <<>>, name |-> "", n |-> 0],
                         attempt |-> 0, called |-> 0, slept |-> 0]
    /\ UNCHANGED <<call, ret, untouched>>

\* run, lines 188-223: the next path of the listing is skipped, or its
\* target is settled and do_with_retries is entered.
Visit ==
    /\ frame.pc = "loop"
    /\ \E path \in frame.todo :
        LET skip == [frame EXCEPT !.todo = @ \ {path},
                                  !.stats.skipped = @ + 1,
                                  !.rows = Append(@, [source |-> path,
                                                      status |-> "SKIPPED"])]
            parts == Range(path.dir) \cup {path.name}
            target_dir  == IF call.keep_structure THEN path.dir ELSE <<>>
            made        == IF call.keep_structure
                           THEN [fs EXCEPT !.dst.dirs = @ \cup {target_dir}]
                           ELSE fs
            target_path == IF call.avoid_overwrite
                           THEN unique_destination_path(made.dst.files,
                                                        target_dir, path.name)
                           ELSE [dir |-> target_dir, name |-> path.name,
                                 n |-> 0]
        IN  IF parts \cap call.excluded_dirnames # {} \/ path \notin fs.src.files
            THEN frame' = skip /\ fs' = fs
            ELSE /\ fs' = made
                 /\ IF /\ call.skip_existing
                       /\ target_path \in made.dst.files
                       /\ ~call.avoid_overwrite
                    THEN frame' = skip
                    ELSE frame' = [frame EXCEPT
                                      !.pc = "attempt", !.todo = @ \ {path},
                                      !.path = path,
                                      !.target_path = target_path,
                                      !.attempt = 0, !.called = 0,
                                      !.slept = 0]
    /\ UNCHANGED <<call, ret, untouched>>

\* do_with_retries, lines 155-163, with the call of op_file and lines
\* 225-237 of run: the action is called; it returns, and the file is
\* counted OK, or it raises (never in a dry run, where op_file returns at
\* once), and then either another attempt follows the sleep or the
\* exception reaches run, which counts an error.  In the mode
\* copy_then_delete the exception may be that of the verification, the copy
\* being made.
Attempt ==
    /\ frame.pc = "attempt"
    /\ LET called == [frame EXCEPT !.called = @ + 1]
           row(status) == [source |-> frame.path, status |-> status,
                           called |-> called.called, slept |-> frame.slept]
       IN  \/ /\ fs' = op_file(fs, frame.path, frame.target_path, call.mode,
                               call.dry_run)
              /\ frame' = [called EXCEPT !.pc = "loop", !.stats.ok = @ + 1,
                                         !.rows = Append(@, row("OK"))]
           \/ /\ ~call.dry_run
              /\ \/ fs' = fs
                 \/ /\ call.mode = "copy_then_delete"
                    /\ fs' = [fs EXCEPT
                                 !.dst.files = @ \cup {frame.target_path}]
              /\ frame' = IF retry_again(frame.attempt, call.retries)
                          THEN [called EXCEPT !.pc = "sleep"]
                          ELSE [called EXCEPT
                                   !.pc = "loop", !.stats.errors = @ + 1,
                                   !.rows = Append(@, row("ERROR"))]
    /\ UNCHANGED <<call, ret, untouched>>

\* do_with_retries, line 161: time.sleep, then the next attempt.
Sleep ==
    /\ frame.pc = "sleep"
    /\ frame' = [frame EXCEPT !.pc = "attempt", !.attempt = @ + 1,
                              !.slept = @ + 1]
    /\ UNCHANGED <<fs, call, ret, untouched>>

\* run, lines 239-246: the listing is exhausted, the report is written
\* (to a file outside the two trees) and the stats are returned.
Return ==
    /\ frame.pc = "loop"
    /\ frame.todo = {}
    /\ frame' = [frame EXCEPT !.pc = "returned"]
    /\ ret' = <<frame.stats>>
    /\ UNCHANGED <<fs, call, untouched>>

SpecMover ==
    InitMover /\ [][Start \/ Visit \/ Attempt \/ Sleep \/ Return]_vars

-----------------------------------------------------------------------------
(* Vocabulary of the properties.                                           *)

Done == pc = "done"

\* run_comparison returned the full Result, summary included.
HasSummary == Done /\ "summary" \in DOMAIN result

KeyMode == self.key_columns # <<>>

\* The comparator as __init__ leaves it, with this run's configuration.
Fresh ==
    new_comparator(self.file1_path, self.file2_path, self.key_columns,
                   self.ignore_columns)

KeysPresent ==
    \A k \in Range(self.key_columns) :
        k \in columns(self.df1) /\ k \in columns(self.df2)

\* Some key occurs in two rows of df.
HasDuplicateKeys(df) ==
    \E i, j \in DOMAIN df.rows :
        i # j /\ key_of(df.rows[i], self.key_columns)
                 = key_of(df.rows[j], self.key_columns)

UniqueKeys == ~HasDuplicateKeys(self.df1) /\ ~HasDuplicateKeys(self.df2)

ResultTypes ==
    {result.structured_differences[n].type :
        n \in DOMAIN result.structured_differences}

MatchingTypes == {"missing_records", "additional_records", "content_mismatch"}

\* The record-matching phase was entered in key-based mode.
MatchingRan == HasSummary /\ KeyMode /\ ~is_fatal

HoldsReplacementChar(file) ==
    \E i \in DOMAIN file.rows : \E c \in DOMAIN file.rows[i] :
        "FFFD" \in Range(file.rows[i][c])

-----------------------------------------------------------------------------
(* C1 *)

\* Both files exist and hold the same header and the same rows in the same
\* order.
IdenticalSources ==
    fs["A.csv"].kind \in csv_kinds /\ fs["A.csv"] = fs["B.csv"]

NoDifferenceReported ==
    /\ "summary" \in DOMAIN result
    /\ result.success
    /\ result.differences = <<>>
    /\ result.summary.rows_with_differences = 0

-----------------------------------------------------------------------------
(* C2 *)

\* C2: whenever the matching phase runs in key-based mode, missing_records
\* is the number of distinct keys of source A absent from source B and
\* additional_records the number of distinct keys of B absent from A.
C2_CountsDistinctKeys ==
    MatchingRan =>
        /\ result.summary.missing_records =
               Cardinality(keys_of(self.df1, self.key_columns)
                           \ keys_of(self.df2, self.key_columns))
        /\ result.summary.additional_records =
               Cardinality(keys_of(self.df2, self.key_columns)
                           \ keys_of(self.df1, self.key_columns))

-----------------------------------------------------------------------------
(* C3 *)

\* C3: in key-based mode, a key occurring twice in one source gives a fatal
\* duplicate-keys error (errors non-empty, success = false, a
\* duplicate_keys entry) and no missing_records, additional_records or
\* content_mismatch entry.
C3_DuplicatesAreFatal ==
    (/\ HasSummary
     /\ KeyMode
     /\ KeysPresent
     /\ HasDuplicateKeys(self.df1) \/ HasDuplicateKeys(self.df2))
    => /\ result.errors # <<>>
       /\ ~result.success
       /\ "duplicate_keys" \in ResultTypes
       /\ ResultTypes \cap MatchingTypes = {}

-----------------------------------------------------------------------------
(* C4 *)

KeyColumnMissing == KeyMode /\ ~KeysPresent

\* The (key column, file) pairs whose header lacks the key column.
LackingPairs ==
    {kf \in Range(self.key_columns) \X {"File 1", "File 2"} :
        kf[1] \notin columns(IF kf[2] = "File 1" THEN self.df1 ELSE self.df2)}

\* C4: when a key column is absent from a header, the errors are exactly one
\* "Key column not found" per (key column, file) lacking it, success is
\* false, and neither the uniqueness check nor the matching runs: no
\* duplicate_keys, missing_records, additional_records or content_mismatch
\* entry exists and control never reaches those two calls.
C4_MissingKeyColumnIsFatal ==
    /\ (HasSummary /\ KeyColumnMissing) =>
          /\ Len(result.errors) = Cardinality(LackingPairs)
          /\ \A kf \in LackingPairs :
                 \E n \in DOMAIN result.errors :
                     result.errors[n] = [msg |-> "Key column not found",
                                         k |-> kf[1], file |-> kf[2]]
          /\ ~result.success
          /\ ResultTypes \cap (MatchingTypes \cup {"duplicate_keys"}) = {}
    /\ pc \in {"validate_key_uniqueness", "compare_records"} =>
          ~KeyColumnMissing

C4_Witness ==
    /\ HasSummary
    /\ KeyColumnMissing
    /\ Cardinality(LackingPairs) = 2
    /\ "id" \in columns(self.df1)
    /\ "id" \notin columns(self.df2)
    /\ Len(self.df1.rows) = MaxRows

-----------------------------------------------------------------------------
(* C5 *)

\* C5: in every Result with a summary, success is true exactly when errors
\* is empty, differences is empty and the two loaded headers are the same
\* ordered list.
C5_SuccessIffClean ==
    HasSummary =>
        (result.success <=>
            /\ result.errors = <<>>
            /\ result.differences = <<>>
            /\ self.df1.header = self.df2.header)

C5_Witness ==
    /\ HasSummary
    /\ result.success
    /\ KeyMode
    /\ Len(self.df1.rows) = MaxRows

-----------------------------------------------------------------------------
(* C6 *)

\* p is x / y * 100 rounded to two decimals, in hundredths of a percent.
IsRoundedPercentage(p, x, y) ==
    /\ 2 * (p * y - 10000 * x) <= y
    /\ 2 * (10000 * x - p * y) <= y

\* C6: matching_rows_perfect = total_rows_file1 - missing_records -
\* rows_with_differences, and matching_percentage is matching_rows_perfect
\* over total_rows_file1 + additional_records as a percentage rounded to two
\* decimals, 0.0 when that sum is 0.
C6_SummaryArithmetic ==
    HasSummary =>
        LET sm == result.summary
            universe == sm.total_rows_file1 + sm.additional_records
        IN  /\ sm.matching_rows_perfect =
                   sm.total_rows_file1 - sm.missing_records
                   - sm.rows_with_differences
            /\ IF universe = 0 THEN sm.matching_percentage = 0
               ELSE IsRoundedPercentage(sm.matching_percentage,
                                        sm.matching_rows_perfect, universe)

-----------------------------------------------------------------------------
(* C7 *)

\* Pairs <<row of df1, row of df2>> carrying the same key.
MatchedPairs ==
    {ij \in (DOMAIN self.df1.rows) \X (DOMAIN self.df2.rows) :
        key_of(self.df1.rows[ij[1]], self.key_columns)
        = key_of(self.df2.rows[ij[2]], self.key_columns)}

ComparedColumns ==
    (columns(self.df1) \cap columns(self.df2)) \ Range(self.key_columns)

\* The content_mismatch entries of key k that list column c.
Mismatches(k, c) ==
    {n \in DOMAIN result.structured_differences :
        LET e == result.structured_differences[n]
        IN  /\ e.type = "content_mismatch"
            /\ e.key = key_str(k)
            /\ \E m \in DOMAIN e.cell_diffs : e.cell_diffs[m].col = c}

PlainAndDecimal == {<<"8", "0">>, <<"8", "0", ".", "0">>}

\* C7: for rows matched by key, a compared column is reported in a
\* content_mismatch entry exactly when the normalized strings of its two
\* cells are unequal (one entry per matched pair that differs), and the
\* cells "80" and "80.0" are always reported as differing.
C7_StrictStringComparison ==
    MatchingRan =>
        /\ \A k \in keys_of(self.df1, self.key_columns), c \in ComparedColumns :
               Cardinality(Mismatches(k, c)) =
               Cardinality({ij \in MatchedPairs :
                   /\ key_of(self.df1.rows[ij[1]], self.key_columns) = k
                   /\ NormalizeVal(variant, self.df1.rows[ij[1]][c])
                      # NormalizeVal(variant, self.df2.rows[ij[2]][c])})
        /\ \A ij \in MatchedPairs, c \in ComparedColumns :
               {fs["A.csv"].rows[ij[1]][c], fs["B.csv"].rows[ij[2]][c]}
                   = PlainAndDecimal
               => \E n \in Mismatches(
                       key_of(self.df1.rows[ij[1]], self.key_columns), c) :
                      \E m \in DOMAIN result.structured_differences[n].cell_diffs :
                          LET d == result.structured_differences[n].cell_diffs[m]
                          IN  /\ d.col = c
                              /\ d.file1_value = fs["A.csv"].rows[ij[1]][c]
                              /\ d.file2_value = fs["B.csv"].rows[ij[2]][c]

C7_Witness ==
    /\ MatchingRan
    /\ "val" \in ComparedColumns
    /\ Len(self.df1.rows) = MaxRows
    /\ \E ij \in MatchedPairs :
           /\ fs["A.csv"].rows[ij[1]]["val"] = <<"8", "0">>
           /\ fs["B.csv"].rows[ij[2]]["val"] = <<"8", "0", ".", "0">>
    /\ \E ij \in MatchedPairs :
           self.df1.rows[ij[1]]["val"] = self.df2.rows[ij[2]]["val"]
    /\ result.summary.rows_with_differences = 1

-----------------------------------------------------------------------------
(* C8 *)

\* The file with rows i and j exchanged.
Swap(file, i, j) ==
    [file EXCEPT !.rows = [@ EXCEPT ![i] = file.rows[j], ![j] = file.rows[i]]]

\* The files obtained by exchanging two rows of `file`.
Permuted(file) ==
    {Swap(file, ij[1], ij[2]) :
        ij \in {xy \in (DOMAIN file.rows) \X (DOMAIN file.rows) : xy[1] < xy[2]}}

EntriesOf(res, type) ==
    {res.structured_differences[n] :
        n \in {m \in DOMAIN res.structured_differences :
                  res.structured_differences[m].type = type}}

\* What a key-based Result says, row order left aside.
Outcome(res) ==
    [missing_records |-> res.summary.missing_records,
     missing_keys |->
         UNION {Range(e.ids) : e \in EntriesOf(res, "missing_records")},
     additional_records |-> res.summary.additional_records,
     additional_keys |->
         UNION {Range(e.ids) : e \in EntriesOf(res, "additional_records")},
     rows_with_differences |-> res.summary.rows_with_differences,
     content_mismatch |->
         {[key |-> e.key, cell_diffs |-> Range(e.cell_diffs)] :
             e \in EntriesOf(res, "content_mismatch")}]

\* C8: in key-based mode with unique keys, exchanging two rows of either
\* file changes neither the missing_records count and keys, nor the
\* additional_records count and keys, nor the keys with a content_mismatch
\* entry and their cell_diffs.
C8_RowOrderIndependence ==
    (MatchingRan /\ UniqueKeys) =>
        \A p \in DOMAIN fs : \A g \in Permuted(fs[p]), order \in ColumnOrders :
            Outcome(run_comparison(variant, [fs EXCEPT ![p] = g],
                                   order, Fresh).result)
            = Outcome(result)

C8_Witness ==
    /\ MatchingRan
    /\ UniqueKeys
    /\ Len(self.df1.rows) = MaxRows
    /\ Len(self.df2.rows) = MaxRows
    /\ self.df1.rows[1]["id"] # self.df2.rows[1]["id"]
    /\ "content_mismatch" \in ResultTypes

-----------------------------------------------------------------------------
(* C9 *)

\* g is f with other values in the ignored columns only.
DiffersInIgnoredOnly(f, g) ==
    /\ g.kind = f.kind
    /\ g.header = f.header
    /\ Len(g.rows) = Len(f.rows)
    /\ \A i \in DOMAIN f.rows : \A c \in Range(f.header) \ self.ignore_columns :
           g.rows[i][c] = f.rows[i][c]

\* The files of the model that differ from f in ignored columns at most.
Revalued(f) ==
    IF Range(f.header) \cap self.ignore_columns = {} THEN {f}
    ELSE {g \in Files : DiffersInIgnoredOnly(f, g)}

\* A run on the given files and instance may return res.
MayReturn(files, s, res) ==
    \E order \in ColumnOrders :
        run_comparison(variant, files, order, s).result = res

RowsReported(e) ==
    (IF "full_rows" \in DOMAIN e THEN Range(e.full_rows) ELSE {})
    \cup (IF "full_row_file1" \in DOMAIN e
          THEN {e.full_row_file1, e.full_row_file2} ELSE {})

ColumnsReported(e) ==
    (IF "file1_headers" \in DOMAIN e
     THEN Range(e.file1_headers) \cup Range(e.file2_headers) ELSE {})
    \cup UNION {DOMAIN row : row \in RowsReported(e)}
    \cup (IF "cell_diffs" \in DOMAIN e
          THEN {e.cell_diffs[m].col : m \in DOMAIN e.cell_diffs} ELSE {})
    \cup (IF "details" \in DOMAIN e
          THEN {e.details[m].col : m \in DOMAIN e.details} ELSE {})

\* C9: ignored columns are absent from both tables when validation and
\* comparison run and from every reported header list, full row and cell
\* difference; a run on files that
\* differ from these only in ignored columns returns the same Result; and
\* ignoring a name neither file has gives the Result of ignoring nothing.
C9_IgnoredColumnsInvisible ==
    /\ pc \in {"validate_headers", "validate_key_uniqueness",
               "compare_records", "summary"} =>
           (columns(self.df1) \cup columns(self.df2))
               \cap self.ignore_columns = {}
    /\ Done =>
        /\ \A n \in DOMAIN result.structured_differences :
               ColumnsReported(result.structured_differences[n])
                   \cap self.ignore_columns = {}
        /\ \A n \in DOMAIN result.differences :
               ColumnsReported(result.differences[n])
                   \cap self.ignore_columns = {}
        /\ self.ignore_columns # {} =>
               \A ga \in Revalued(fs["A.csv"]), gb \in Revalued(fs["B.csv"]) :
                   (ga # fs["A.csv"] \/ gb # fs["B.csv"]) =>
                       MayReturn([p \in DOMAIN fs |->
                                     IF p = "A.csv" THEN ga ELSE gb],
                                 Fresh, result)
        /\ (/\ self.ignore_columns # {}
            /\ (Range(fs["A.csv"].header) \cup Range(fs["B.csv"].header))
                   \cap self.ignore_columns = {})
           => MayReturn(fs, [Fresh EXCEPT !.ignore_columns = {}], result)

C9_Witness ==
    /\ HasSummary
    /\ KeyMode
    /\ self.ignore_columns = {"noise"}
    /\ "noise" \in Range(fs["A.csv"].header)
    /\ "noise" \in Range(fs["B.csv"].header)
    /\ fs["A.csv"].rows # <<>>
    /\ fs["B.csv"].rows # <<>>
    /\ fs["A.csv"].rows[1]["noise"] # fs["B.csv"].rows[1]["noise"]
    /\ "content_mismatch" \in ResultTypes

-----------------------------------------------------------------------------
(* C10 *)

Loaded == self.df1.loaded /\ self.df2.loaded

\* The conditions C10 lists.
MissingFile == \E p \in DOMAIN fs : fs[p].kind = "missing"

Unreadable == ~MissingFile /\ ~Loaded

DuplicateKeys ==
    /\ Loaded
    /\ KeyMode
    /\ KeysPresent
    /\ HasDuplicateKeys(self.df1) \/ HasDuplicateKeys(self.df2)

HeaderMismatch == Loaded /\ self.df1.header # self.df2.header

ShapeMismatch == Loaded /\ ~KeyMode /\ shape(self.df1) # shape(self.df2)

Problem ==
    \/ MissingFile
    \/ Unreadable
    \/ Loaded /\ KeyColumnMissing
    \/ DuplicateKeys
    \/ HeaderMismatch
    \/ ShapeMismatch

IsResult(res) ==
    {"success", "errors", "differences", "structured_differences"}
        \subseteq DOMAIN res

\* C10: run_comparison always returns a Result, and a missing file, an
\* unreadable file, a missing key column, duplicate keys, a header mismatch
\* or a shape mismatch is recorded in its errors or its differences.
C10_ProblemsAreRecorded ==
    Done =>
        /\ IsResult(result)
        /\ Problem => (result.errors # <<>> \/ result.differences # <<>>)

-----------------------------------------------------------------------------
(* C11 *)

ResultFields ==
    {"success", "summary", "errors", "differences", "structured_differences"}

\* The first configured path, File 1 before File 2, that does not exist.
FirstMissingPath ==
    IF fs[self.file1_path].kind = "missing" THEN self.file1_path
    ELSE self.file2_path

\* On a file-not-found: success = false, one error naming the first missing
\* path, and nothing was loaded, validated or compared.
HaltedOnMissingFile ==
    /\ ~result.success
    /\ result.errors = <<[msg |-> "File not found", path |-> FirstMissingPath]>>
    /\ result.differences = <<>>
    /\ result.structured_differences = <<>>
    /\ ~self.df1.loaded /\ ~self.df2.loaded
    /\ ~headers_ok /\ ~is_fatal /\ ~records_ok

\* C11: every Result has success, summary, errors, differences and
\* structured_differences, also when a file is missing or cannot be loaded;
\* on a file-not-found it has success = false, exactly one error naming the
\* first missing path, and no later stage has run.
C11_ResultWellFormed ==
    Done =>
        /\ ResultFields \subseteq DOMAIN result
        /\ MissingFile => HaltedOnMissingFile

-----------------------------------------------------------------------------
(* C12 *)

\* C12: a second call of run_comparison on the same instance, the files
\* unchanged, returns a Result equal to the first call's: no error,
\* difference or structured difference is carried over or duplicated.
C12_SecondCallSameResult ==
    (Done /\ calls = 2) => result = first

-----------------------------------------------------------------------------
(* C13 *)

\* C13: each normalisation function is idempotent: applied to its own
\* result it returns that result, for every cell value, the missing value
\* (which normalises to the empty string) included.
C13_NormalizeIdempotent ==
    /\ Len(ret) >= 2 => ret[2] = ret[1]
    /\ (Len(ret) >= 1 /\ isna(call.arg)) => ret[1] = <<>>

\* The function changed the cell (trailing U+00A0, a space run, a combining
\* accent) and then left its result alone.
C13_Witness ==
    /\ Len(ret) = 2
    /\ call.fn = "comparator_33._normalize_unicode_cell"
    /\ call.arg = <<" ", "e", "ACUTE">>
    /\ ret[1] = <<"EACUTE">>
    /\ ret[2] = ret[1]

-----------------------------------------------------------------------------
(* C14 *)

\* C14: whenever both tables are loaded, a header_count_mismatch difference
\* is recorded exactly when the header lists differ in length and a
\* header_name_mismatch difference exactly when the ordered name lists
\* differ, also in runs where a key column is missing.
C14_HeaderComparisonIndependent ==
    (Done /\ Loaded) =>
        /\ "header_count_mismatch" \in ResultTypes
               <=> Len(self.df1.header) # Len(self.df2.header)
        /\ "header_name_mismatch" \in ResultTypes
               <=> self.df1.header # self.df2.header

-----------------------------------------------------------------------------
(* C15 *)

\* The columns only one of the two loaded headers has.
OneSidedColumns ==
    (columns(self.df1) \cup columns(self.df2))
        \ (columns(self.df1) \cap columns(self.df2))

SkippedNotes ==
    {n \in DOMAIN result.differences :
        result.differences[n].msg
            = "Skipping comparison for mismatched columns"}

\* Matching and content comparison ran on the common columns: the keys of
\* one side only are reported, each matched pair that differs in a common
\* non-key column has its entry, no other column is compared, and the
\* one-sided columns are named in one note.
ComparedOnCommonColumns ==
    /\ ~is_fatal
    /\ "missing_records" \in ResultTypes
           <=> keys_of(self.df1, self.key_columns)
                   \ keys_of(self.df2, self.key_columns) # {}
    /\ "additional_records" \in ResultTypes
           <=> keys_of(self.df2, self.key_columns)
                   \ keys_of(self.df1, self.key_columns) # {}
    /\ \A ij \in MatchedPairs, c \in ComparedColumns :
           NormalizeVal(variant, self.df1.rows[ij[1]][c])
               # NormalizeVal(variant, self.df2.rows[ij[2]][c])
           => Mismatches(key_of(self.df1.rows[ij[1]], self.key_columns), c)
                  # {}
    /\ \A n \in DOMAIN result.structured_differences :
           LET e == result.structured_differences[n]
           IN  e.type = "content_mismatch" =>
                   \A m \in DOMAIN e.cell_diffs :
                       e.cell_diffs[m].col \in ComparedColumns
    /\ Cardinality(SkippedNotes) = IF OneSidedColumns = {} THEN 0 ELSE 1
    /\ \A n \in SkippedNotes : result.differences[n].cols = OneSidedColumns

HeaderMismatchWithKeys ==
    HasSummary /\ KeyMode /\ KeysPresent /\ HeaderMismatch

\* C15 as stated: in key-based mode with all key columns on both sides, a
\* header mismatch leaves errors empty and matching and content comparison
\* run on the non-key columns of both headers, the one-sided columns being
\* reported in exactly one note.
C15_HeaderMismatchNeverFatal ==
    HeaderMismatchWithKeys =>
        (result.errors = <<>> /\ ComparedOnCommonColumns)

\* C15 as amended: the same, for runs in which no key occurs twice in a
\* file (duplicate keys stay fatal whatever the headers are).
C15_HeaderMismatchNonFatal ==
    (HeaderMismatchWithKeys /\ UniqueKeys) =>
        (result.errors = <<>> /\ ComparedOnCommonColumns)

C15_Witness ==
    /\ HeaderMismatchWithKeys
    /\ UniqueKeys
    /\ Len(self.df1.rows) = MaxRows
    /\ Cardinality(SkippedNotes) = 1
    /\ "content_mismatch" \in ResultTypes
    /\ "missing_records" \in ResultTypes

-----------------------------------------------------------------------------
(* C16 *)

\* C16: in positional mode a shape mismatch is recorded as a shape_mismatch
\* entry, appends nothing to errors, and leaves the run a comparison like
\* any other, with its summary.
C16_ShapeMismatchNonFatal ==
    (Done /\ ShapeMismatch) =>
        /\ "shape_mismatch" \in ResultTypes
        /\ result.errors = <<>>
        /\ HasSummary

-----------------------------------------------------------------------------
(* C17 *)

EqualShapes == Loaded /\ ~KeyMode /\ shape(self.df1) = shape(self.df2)

\* The cells of the two loaded frames, row by row and in header order
\* within a row (rows counted from 0).
CellsRowMajor ==
    [n \in 1..(Len(self.df1.rows) * Len(self.df1.header)) |->
        [row |-> (n - 1) \div Len(self.df1.header),
         col |-> self.df1.header[((n - 1) % Len(self.df1.header)) + 1]]]

Unequal(cell) ==
    LET v1 == self.df1.rows[cell.row + 1][cell.col]
        v2 == self.df2.rows[cell.row + 1][cell.col]
    IN  v1 # v2 /\ ~(isna(v1) /\ isna(v2))

UnequalCells == SelectSeq(CellsRowMajor, Unequal)

IsContentMismatch(e) == e.type = "content_mismatch"

PositionalEntries == SelectSeq(result.structured_differences, IsContentMismatch)

\* C17: in positional mode with equal shapes the Result holds at most one
\* content_mismatch entry, and holds one when the frames have the same
\* columns and some cell differs; its diff_count is the number of cells
\* that are unequal and not both null, and its details are the first
\* min(diff_count, 50) of them in row-major order.
C17_PositionalContentMismatch ==
    (Done /\ EqualShapes) =>
        /\ Len(PositionalEntries) <= 1
        /\ self.df1.header = self.df2.header =>
               /\ Len(PositionalEntries) = 1 <=> UnequalCells # <<>>
               /\ \A n \in DOMAIN PositionalEntries :
                      LET e == PositionalEntries[n]
                      IN  /\ e.diff_count = Len(UnequalCells)
                          /\ Len(e.details) = Min(e.diff_count, 50)
                          /\ \A m \in DOMAIN e.details :
                                 /\ e.details[m].row = UnequalCells[m].row
                                 /\ e.details[m].col = UnequalCells[m].col

\* More cells differ than the details show, some cells are null in both
\* files.
C17_Witness ==
    /\ Done
    /\ EqualShapes
    /\ Len(PositionalEntries) = 1
    /\ PositionalEntries[1].diff_count > 50
    /\ Len(PositionalEntries[1].details) = 50
    /\ \E i \in DOMAIN self.df1.rows :
           isna(self.df1.rows[i]["val"]) /\ isna(self.df2.rows[i]["val"])

-----------------------------------------------------------------------------
(* C18 *)

\* The function under way has returned or raised.
HeaderCallOver == frame.pc \in {"returned", "raised"}

\* No encoding and separator that the call tries gives more than one
\* column.
NoSeveralColumns ==
    \A e \in DOMAIN frame.encodings, k \in DOMAIN frame.seps_to_try :
        LET r == read_columns(call.file, frame.seps_to_try[k],
                              frame.encodings[e])
        IN  r.raised \/ looks_like_single_column(r.columns)

\* C18: when no tried combination of encoding and separator yields a
\* header of more than one column, the call ends with a decode error
\* whose message lists every encoding that was attempted.
C18_DecodeErrorListsEncodings ==
    (HeaderCallOver /\ NoSeveralColumns) =>
        /\ frame.pc = "raised"
        /\ ret[1].type = "UnicodeDecodeError"
        /\ ret[1].encodings = frame.encodings

-----------------------------------------------------------------------------
(* C20 *)

\* The rules of the configuration, and those whose pattern is a prefix of
\* the file name, the empty pattern included or not.
RulesOfConfig == dict_get(orchestrator.config, "rules", <<>>)

PrefixRules ==
    {n \in DOMAIN RulesOfConfig :
        startswith(call.filename, RulesOfConfig[n].pattern)}

NonEmptyPrefixRules ==
    {n \in PrefixRules : RulesOfConfig[n].pattern # <<>>}

\* The value the statement gives a field: that of the first rule of
\* `matching` if that rule defines the field, otherwise the default of
\* the configuration, otherwise the value of the command line.
Resolved(matching, field, default, cli) ==
    LET n == CHOOSE n \in matching : \A m \in matching : n <= m
    IN  IF matching # {} /\ field \in DOMAIN RulesOfConfig[n]
        THEN RulesOfConfig[n][field]
        ELSE IF default \in DOMAIN orchestrator.config
        THEN orchestrator.config[default]
        ELSE cli

ResolvedAll(matching) ==
    /\ ret[1].keys =
           Resolved(matching, "keys", "default_keys", orchestrator.keys)
    /\ ret[1].ignore_columns =
           Resolved(matching, "ignore_columns", "default_ignore_columns",
                    orchestrator.ignore_columns)
    /\ ret[1].separator =
           Resolved(matching, "separator", "default_separator",
                    orchestrator.separator)

\* C20 as stated: each of keys, ignore_columns and separator comes from
\* the first rule in list order whose pattern is a prefix of the file
\* name, if that rule defines the field; otherwise from the default of the
\* configuration; otherwise from the command line.
C20_FirstPrefixRule == ret # <<>> => ResolvedAll(PrefixRules)

\* C20 as amended: the same, the rules with an empty pattern left out.
C20_FirstNonEmptyPrefixRule == ret # <<>> => ResolvedAll(NonEmptyPrefixRules)

\* The first matching rule omits the keys, a later matching rule defines
\* them, and the default of the configuration is what is returned.
C20_Witness ==
    /\ ret # <<>>
    /\ Cardinality(NonEmptyPrefixRules) = 2
    /\ "keys" \notin DOMAIN RulesOfConfig[1]
    /\ "keys" \in DOMAIN RulesOfConfig[2]
    /\ "default_keys" \in DOMAIN orchestrator.config
    /\ ret[1].keys = <<"val">>
    /\ ret[1].separator = ","

-----------------------------------------------------------------------------
(* C19 *)

BatchDone == frame.pc = "batch_done"

\* The entry is that of a file both directories hold, with keys resolved.
Compared(e) ==
    /\ e.file_name \in DOMAIN orchestrator.dir_a
    /\ e.file_name \in DOMAIN orchestrator.dir_b
    /\ e.keys_used # <<>>

\* The two files of the entry are the same, have every key column, and
\* no key twice.
IdenticalPair(e) ==
    LET file == orchestrator.dir_a[e.file_name]
    IN  /\ orchestrator.dir_b[e.file_name] = file
        /\ Range(e.keys_used) \subseteq Range(file.header)
        /\ \A i, j \in DOMAIN file.rows :
               i # j => key_of(file.rows[i], e.keys_used)
                        # key_of(file.rows[j], e.keys_used)

\* C19: at the end of a batch run with the class of comparator.py, the
\* one the orchestrator imports, every CSV file that both directories
\* hold and that has keys has an entry whose status is not EXCEPTION, and
\* is OK when the two files are identical, hold the key columns and
\* repeat no key.
C19_StatusFromResult ==
    (BatchDone /\ variant = "comparator") =>
        \A n \in DOMAIN orchestrator.results_summary :
            LET e == orchestrator.results_summary[n]
            IN  Compared(e) =>
                    /\ e.status # "EXCEPTION"
                    /\ IdenticalPair(e) => e.status = "OK"

-----------------------------------------------------------------------------
(* C22 *)

\* The content_mismatch entries of key k.
MismatchesOf(k) ==
    {n \in DOMAIN result.structured_differences :
        /\ result.structured_differences[n].type = "content_mismatch"
        /\ result.structured_differences[n].key = key_str(k)}

\* The compared columns in which the rows of key k differ.
DifferingColumns(k) ==
    {c \in ComparedColumns \ self.ignore_columns :
        \E ij \in MatchedPairs :
            /\ key_of(self.df1.rows[ij[1]], self.key_columns) = k
            /\ NormalizeVal(variant, self.df1.rows[ij[1]][c])
               # NormalizeVal(variant, self.df2.rows[ij[2]][c])}

\* The cell diff of column c between the rows i of df1 and j of df2.
CellDiff(c, i, j) ==
    [col |-> c,
     file1_value |-> NormalizeVal(variant, self.df1.rows[i][c]),
     file2_value |-> NormalizeVal(variant, self.df2.rows[j][c])]

\* C22: in key-based mode with unique keys, a key has exactly one
\* content_mismatch entry when it is common to both files and its two rows
\* differ in some compared column, and none otherwise; no entry belongs to
\* another key; the entry's cell_diffs list each differing column once, with
\* the two compared values, and diff_count is the length of cell_diffs.
C22_OneEntryPerDifferingKey ==
    (MatchingRan /\ UniqueKeys) =>
        /\ \A k \in keys_of(self.df1, self.key_columns)
                    \cup keys_of(self.df2, self.key_columns) :
               Cardinality(MismatchesOf(k)) =
                   IF DifferingColumns(k) # {} THEN 1 ELSE 0
        /\ \A n \in DOMAIN result.structured_differences :
               LET e == result.structured_differences[n]
               IN  e.type = "content_mismatch" =>
                       /\ e.diff_count = Len(e.cell_diffs)
                       /\ \E ij \in MatchedPairs :
                              LET k == key_of(self.df1.rows[ij[1]],
                                              self.key_columns)
                              IN  /\ e.key = key_str(k)
                                  /\ Len(e.cell_diffs)
                                     = Cardinality(DifferingColumns(k))
                                  /\ Range(e.cell_diffs) =
                                         {CellDiff(c, ij[1], ij[2]) :
                                             c \in DifferingColumns(k)}

\* Keys [id] with A = [(id=2, val=80)] and B = [(id=2, val=80.0)]: one entry
\* with the single cell diff val: "80" against "80.0".
C22_Witness ==
    /\ MatchingRan
    /\ UniqueKeys
    /\ self.key_columns = <<"id">>
    /\ Len(self.df1.rows) = 1
    /\ Len(self.df2.rows) = 1
    /\ \E n \in DOMAIN result.structured_differences :
           LET e == result.structured_differences[n]
           IN  /\ e.type = "content_mismatch"
               /\ e.key = <<"2">>
               /\ e.diff_count = 1
               /\ e.cell_diffs = <<[col |-> "val",
                                    file1_value |-> <<"8", "0">>,
                                    file2_value |-> <<"8", "0", ".", "0">>]>>

-----------------------------------------------------------------------------
(* C23 *)

\* C23: every key-based content_mismatch entry carries, for each side, the
\* whole row of that side's table as loaded: full_row_file1 is the row of
\* df1 with the entry's key, over every column of df1, and full_row_file2
\* is the row of df2 with that key, over every column of df2.
C23_FullOriginalRows ==
    (MatchingRan /\ UniqueKeys) =>
        \A n \in DOMAIN result.structured_differences :
            LET e == result.structured_differences[n]
            IN  e.type = "content_mismatch" =>
                    \E ij \in MatchedPairs :
                        /\ e.key = key_str(key_of(self.df1.rows[ij[1]],
                                                  self.key_columns))
                        /\ e.full_row_file1 = self.df1.rows[ij[1]]
                        /\ e.full_row_file2 = self.df2.rows[ij[2]]

-----------------------------------------------------------------------------
(* C24 *)

Digits == <<"0", "1", "2", "3", "4", "5", "6", "7", "8", "9">>

\* The cell is a decimal numeral: digits with at most one point.
IsNumeric(cell) ==
    /\ cell # <<>>
    /\ Range(cell) \subseteq Range(Digits) \cup {"."}
    /\ Cardinality({i \in DOMAIN cell : cell[i] = "."}) <= 1
    /\ cell[1] # "." /\ cell[Len(cell)] # "."

RECURSIVE Whole(_)
Whole(digits) ==
    IF digits = <<>> THEN 0
    ELSE 10 * Whole(SubSeq(digits, 1, Len(digits) - 1))
         + (CHOOSE d \in 0..9 : Digits[d + 1] = digits[Len(digits)])

\* The value of a numeral of the model, in tenths (the numerals of the model
\* have at most one decimal).
Tenths(cell) ==
    IF "." \in Range(cell)
    THEN LET p == CHOOSE i \in DOMAIN cell : cell[i] = "."
         IN  10 * Whole(SubSeq(cell, 1, p - 1)) + Whole(SubSeq(cell, p + 1, p + 1))
    ELSE 10 * Whole(cell)

\* Numeric order on keys whose components are numerals.
RECURSIVE NumericLess(_, _)
NumericLess(a, b) ==
    IF a = <<>> \/ b = <<>> THEN FALSE
    ELSE IF Tenths(a[1]) # Tenths(b[1]) THEN Tenths(a[1]) < Tenths(b[1])
    ELSE NumericLess(Tail(a), Tail(b))

\* The key an id of an entry is the text of.
KeyOfId(id) ==
    CHOOSE k \in keys_of(self.df1, self.key_columns)
                 \cup keys_of(self.df2, self.key_columns) : key_str(k) = id

IdListTypes == {"duplicate_keys", "missing_records", "additional_records"}

\* The list of ids is in the order C24 describes.
IdsSorted(ids) ==
    LET keys    == [n \in DOMAIN ids |-> KeyOfId(ids[n])]
        numeric == \A n \in DOMAIN keys : \A c \in DOMAIN keys[n] :
                       IsNumeric(keys[n][c])
    IN  \A i, j \in DOMAIN keys :
            i < j => IF numeric THEN ~NumericLess(keys[j], keys[i])
                     ELSE ~key_less(keys[j], keys[i])

\* C24: the ids of every duplicate_keys, missing_records and
\* additional_records entry are in sorted order: numeric order when every
\* key component is numeric (key 2 before key 10), lexicographic string
\* order otherwise.
C24_IdsSorted ==
    (HasSummary /\ KeyMode /\ KeysPresent) =>
        \A n \in DOMAIN result.structured_differences :
            LET e == result.structured_differences[n]
            IN  e.type \in IdListTypes => IdsSorted(e.ids)

-----------------------------------------------------------------------------
(* C25 *)

IsDuplicateKeys(e) == e.type = "duplicate_keys"

IsDuplicateError(e) == e.msg = "Duplicate keys found"

\* The rows of df whose key occurs at least twice in df, in df's order.
RepeatedRows(df) ==
    SelectSeq(df.rows, LAMBDA r :
        Cardinality({i \in DOMAIN df.rows :
            key_of(df.rows[i], self.key_columns)
            = key_of(r, self.key_columns)}) >= 2)

\* The sources that hold a repeated key, source 1 first.
SourcesWithDuplicates ==
    SelectSeq(<<[df |-> self.df1, path |-> self.file1_path, which |-> "File 1"],
                [df |-> self.df2, path |-> self.file2_path, which |-> "File 2"]>>,
              LAMBDA src : HasDuplicateKeys(src.df))

\* C25: the key uniqueness check of comparator_33.py emits one
\* duplicate_keys entry and one error for each source that has a repeated
\* key, source 1 before source 2; the entry's full_rows are all the rows of
\* that source whose key occurs at least twice, count is their number, and
\* ids are the repeated keys, each listed once.
C25_DuplicateKeysPerSource ==
    (variant = "comparator_33" /\ HasSummary /\ KeyMode /\ KeysPresent) =>
        LET entries == SelectSeq(result.structured_differences, IsDuplicateKeys)
            errors  == SelectSeq(result.errors, IsDuplicateError)
            sources == SourcesWithDuplicates
        IN  /\ Len(entries) = Len(sources)
            /\ Len(errors) = Len(sources)
            /\ \A n \in DOMAIN sources :
                   LET rows == RepeatedRows(sources[n].df)
                   IN  /\ entries[n].file = sources[n].path
                       /\ errors[n].file = sources[n].which
                       /\ entries[n].full_rows = rows
                       /\ entries[n].count = Len(rows)
                       /\ errors[n].count = Len(rows)
                       /\ Range(entries[n].ids) =
                              {key_str(key_of(rows[i], self.key_columns)) :
                                  i \in DOMAIN rows}
                       /\ Len(entries[n].ids)
                          = Cardinality(Range(entries[n].ids))

\* Source 1 repeats one key beside a key that occurs once, source 2 repeats
\* a key too: two entries, and the entry of source 1 leaves the single row
\* out.
C25_Witness ==
    /\ variant = "comparator_33"
    /\ HasSummary
    /\ KeyMode
    /\ KeysPresent
    /\ Len(self.df1.rows) = MaxKeyRows
    /\ Len(SourcesWithDuplicates) = 2
    /\ Len(SelectSeq(result.structured_differences, IsDuplicateKeys)) = 2
    /\ \E n \in DOMAIN result.structured_differences :
           LET e == result.structured_differences[n]
           IN  /\ e.type = "duplicate_keys"
               /\ e.file = self.file1_path
               /\ e.count = 2
               /\ Len(e.ids) = 1

-----------------------------------------------------------------------------
(* C26 *)

\* C26: in every summary, key-based or positional, matching_rows_perfect
\* lies between 0 and total_rows_file1, and matching_percentage between 0
\* and 100 (percentages are in hundredths).
C26_SummaryRanges ==
    HasSummary =>
        /\ result.summary.matching_rows_perfect >= 0
        /\ result.summary.matching_rows_perfect
           <= result.summary.total_rows_file1
        /\ result.summary.matching_percentage >= 0
        /\ result.summary.matching_percentage <= 100 * 100

-----------------------------------------------------------------------------
(* C27 *)

\* The pipeline stage that emits an entry of the type, as a rank.
StageRank(type) ==
    CASE type = "replacement_char_warning" -> 0
      [] type = "header_count_mismatch"    -> 1
      [] type = "header_name_mismatch"     -> 2
      [] type = "duplicate_keys"           -> 3
      [] type = "missing_records"          -> 4
      [] type = "additional_records"       -> 5
      [] type = "shape_mismatch"           -> 6
      [] type = "content_mismatch"         -> 6

CountOf(type) ==
    Cardinality({n \in DOMAIN result.structured_differences :
                    result.structured_differences[n].type = type})

\* C27: in every Result the entries of structured_differences are in the
\* order of the pipeline stages (load-time warnings, header_count_mismatch,
\* header_name_mismatch, duplicate_keys, missing_records,
\* additional_records, content_mismatch); there is at most one
\* missing_records and at most one additional_records entry, and no
\* duplicate_keys entry beside a missing_records, additional_records or
\* content_mismatch entry.
C27_OrderedByStage ==
    Done =>
        /\ \A i, j \in DOMAIN result.structured_differences :
               i < j => StageRank(result.structured_differences[i].type)
                        <= StageRank(result.structured_differences[j].type)
        /\ CountOf("missing_records") <= 1
        /\ CountOf("additional_records") <= 1
        /\ "duplicate_keys" \in ResultTypes => ResultTypes \cap MatchingTypes = {}

-----------------------------------------------------------------------------
(* C30 *)

\* The entry the pass over a file has just appended.
NewEntry == orchestrator.results_summary'[Len(orchestrator.results_summary')]

-----------------------------------------------------------------------------
(* C21 *)

\* main has resolved the encoding of the file.
EncodingResolved == call.fn = "main" /\ frame.pc = "resolved"

\* Some rule whose pattern occurs in the file name has an encoding.
RuleGivesEncoding ==
    \E n \in DOMAIN dict_get(call.config, "rules", <<>>) :
        LET rule == call.config["rules"][n]
        IN  /\ dict_get(rule, "pattern", <<>>) # <<>>
            /\ contains(call.file_name, rule["pattern"])
            /\ dict_get(rule, "encoding", "") # ""

\* C21: when --encoding is given on the command line and no matching rule
\* has an encoding of its own, the encoding resolved for the file is the
\* command line's, whatever default_encoding the configuration has.
C21_CliEncodingOverridesDefault ==
    (EncodingResolved /\ call.encoding # <<>> /\ ~RuleGivesEncoding) =>
        ret = <<call.encoding>>

-----------------------------------------------------------------------------
(* C28 *)

\* The mover is inside or past its loop over the source.
InLoop == call.fn = "run" /\ frame.pc \in {"loop", "attempt", "sleep", "returned"}

\* The rows of the report that went through do_with_retries.
Attempted(status) ==
    {n \in DOMAIN frame.rows : frame.rows[n].status = status}

\* C28: do_with_retries calls the action at most retries + 1 times; a file is
\* counted OK exactly when a call returned, which ended the loop at once,
\* the sleeps being those after the failed calls before it; the exception
\* reaches run, and the file is counted as an error, only after exactly
\* retries + 1 failed calls with retries sleeps between them; no sleep
\* follows the last call.
C28_BoundedRetries ==
    InLoop =>
        /\ frame.called <= call.retries + 1
        /\ frame.pc = "attempt" =>
               frame.called = frame.attempt /\ frame.slept = frame.attempt
        /\ frame.pc = "sleep" =>
               /\ frame.called = frame.attempt + 1
               /\ frame.slept = frame.attempt
               /\ frame.called <= call.retries
        /\ \A n \in Attempted("OK") :
               /\ frame.rows[n].called <= call.retries + 1
               /\ frame.rows[n].slept = frame.rows[n].called - 1
        /\ \A n \in Attempted("ERROR") :
               /\ frame.rows[n].called = call.retries + 1
               /\ frame.rows[n].slept = call.retries
        /\ frame.stats.ok = Cardinality(Attempted("OK"))
        /\ frame.stats.errors = Cardinality(Attempted("ERROR"))

\* With retries = 2, one file went through after two failed calls and two
\* sleeps, and another was given up after three failed calls.
C28_Witness ==
    /\ InLoop
    /\ frame.pc = "returned"
    /\ call.retries = MaxRetries
    /\ \E n \in Attempted("OK") :
           frame.rows[n].called = MaxRetries + 1 /\ frame.rows[n].slept = MaxRetries
    /\ \E n \in Attempted("ERROR") : frame.rows[n].called = MaxRetries + 1
    /\ ret = <<[ok |-> 1, skipped |-> 1, errors |-> 1]>>

-----------------------------------------------------------------------------
(* C29 *)

\* C29: with dry_run set, no step of the mover changes the source tree or
\* the destination tree: no file is moved, copied or deleted and no
\* directory is made.
C29_DryRunChangesNothing ==
    [][(call.fn = "run" /\ call.dry_run) => fs' = fs]_vars

=============================================================================
